---- MODULE Spec2Model ----
(***************************************************************************)
(* vue-passthrough: the merge engine of usePassThrough (pt.ts).            *)
(*                                                                         *)
(* JavaScript values are tagged records [t, s, m]:                         *)
(*   t = "str"   a string; s is its sequence of space-separated tokens     *)
(*   t = "obj"   a plain object; m maps its own keys to values             *)
(*   t = "true" / "false"   the booleans,  t = "undef"   undefined         *)
(*   t = "fn"    a callback or an array of callbacks; s names them         *)
(* A PtSpec / attribute map is the raw TLA+ function of an object.         *)
(***************************************************************************)
EXTENDS Integers, Sequences, FiniteSets, TLC

\* ------------------------------------------------------------------ values
Undef == [t |-> "undef", s |-> <<>>, m |-> <<>>]
True == [t |-> "true", s |-> <<>>, m |-> <<>>]
False == [t |-> "false", s |-> <<>>, m |-> <<>>]
Str(toks) == [t |-> "str", s |-> toks, m |-> <<>>]
Obj(map) == [t |-> "obj", s |-> <<>>, m |-> map]
Fn(names) == [t |-> "fn", s |-> names, m |-> <<>>]

EmptyMap == <<>>

\* JavaScript truthiness: !!v
Truthy(v) ==
    \/ v.t \in {"obj", "true", "fn"}
    \/ v.t = "str" /\ v.s # <<>>

\* obj[key] (undefined when the key is absent)
Get(map, key) == IF key \in DOMAIN map THEN map[key] ELSE Undef

\* { ...map } without the listed keys (object rest destructuring)
Without(map, keys) == [k \in (DOMAIN map) \ keys |-> map[k]]

\* { ...a, ...b } (object spread, b wins)
Spread(a, b) == [k \in (DOMAIN a) \cup (DOMAIN b) |-> IF k \in DOMAIN b THEN b[k] ELSE a[k]]

\* the name a string denotes when it is used as a key
KeyOf(v) == IF v.t = "str" /\ Len(v.s) = 1 THEN v.s[1] ELSE ""

FlagKeys == {"$merge", "$replace"}

\* ------------------------------------------------------------------ utils
isString(v) == v.t = "str"

isObject(v) == v.t = "obj"

isEmpty(map) == DOMAIN map = {}

toClassObject(v) == ("class" :> v)

normalizeValue(v) ==
    IF isString(v) THEN toClassObject(v)
    ELSE IF isObject(v) THEN v.m
    ELSE EmptyMap

\* ------------------------------------------------------- tailwind-merge
\* the utility family a class token belongs to; tokens of one family conflict,
\* a token that is no Tailwind utility ("") conflicts with nothing
Family(tok) ==
    CASE tok \in {"p-2", "p-4"} -> "padding"
      [] tok \in {"grid", "flex"} -> "display"
      [] tok \in {"text-sm", "text-lg"} -> "font-size"
      [] OTHER -> ""

\* later conflicting token wins, the others keep their relative order
twMerge(toks) ==
    LET keep(i) == \/ Family(toks[i]) = ""
                   \/ \A j \in (i + 1)..Len(toks) : Family(toks[j]) # Family(toks[i])
        F[i \in 0..Len(toks)] ==
            IF i = 0 THEN <<>>
            ELSE IF keep(i) THEN Append(F[i - 1], toks[i]) ELSE F[i - 1]
    IN  F[Len(toks)]

\* the tokens of a class value; '' for undefined (the x || '' idiom)
ClassToks(v) == IF v.t = "str" THEN v.s ELSE <<>>

\* ------------------------------------------------------------ vue mergeProps
isOn(key) == key \in {"onClick", "onFocus"}

\* normalizeClass([a, b]): the non-empty operands joined by a space
normalizeClass(a, b) == Str(ClassToks(a) \o ClassToks(b))

\* mutant: the incoming handler replaces the existing one
mergeHandler_IncomingWins(existing, incoming) ==
    IF Truthy(incoming) THEN incoming ELSE existing

\* ret[key] = existing ? [].concat(existing, incoming) : incoming, unless
\* incoming is the existing handler or is one of the existing handlers
mergeHandler(existing, incoming) ==
    IF /\ Truthy(incoming)
       /\ existing # incoming
       /\ ~(Len(existing.s) > 1 /\ Len(incoming.s) = 1 /\ \E i \in 1..Len(existing.s) : existing.s[i] = incoming.s[1])
    THEN IF Truthy(existing) THEN Fn(existing.s \o incoming.s) ELSE incoming
    ELSE existing

\* normalizeStyle([a, b]) for style objects: merged key by key, b winning
normalizeStyle(a, b) == Obj(Spread(a.m, b.m))

\* one iteration of mergeProps' outer loop: fold toMerge into ret
mergeInto(ret, toMerge) ==
    [k \in (DOMAIN ret) \cup (DOMAIN toMerge) |->
        IF k \notin DOMAIN toMerge THEN ret[k]
        ELSE IF k = "class"
             THEN IF Get(ret, k) # toMerge[k] THEN normalizeClass(Get(ret, k), toMerge[k]) ELSE Get(ret, k)
        ELSE IF k = "style" THEN normalizeStyle(Get(ret, k), toMerge[k])
        ELSE IF isOn(k) THEN mergeHandler(Get(ret, k), toMerge[k])
        ELSE toMerge[k]]

mergeProps(a, b) == mergeInto(mergeInto(EmptyMap, a), b)

\* ---------------------------------------------------------- Theme Processing
\* A catalogue is an object literal: keys in insertion order, m its map.
Warning(kind, key) == [kind |-> kind, key |-> key]

\* warn(..., { key, extend }): a diagnostic of resolveExtend
ExtendWarning(kind, key, extend) == [kind |-> kind, key |-> key, extend |-> extend]

\* mutant: the entry's own class is dropped when its target is not found
extendNotFound_NoClass(rest, extendClass) == Spread(rest, "class" :> Str(<<>>))

\* { ...rest, class: extendClass || '' }
extendNotFound(rest, extendClass) ==
    Spread(rest, "class" :> (IF Truthy(extendClass) THEN extendClass ELSE Str(<<>>)))

\* mutant: the target's attributes win a name collision
extendMerged_TargetWins(baseAttrs, rest, extendClass) ==
    Spread(Spread(rest, Without(baseAttrs, {"class"})),
           "class" :> Str(twMerge(ClassToks(Get(baseAttrs, "class")) \o ClassToks(extendClass))))

\* { ...baseRest, ...rest, class: twMerge(baseClass || '', extendClass || '') }
extendMerged(baseAttrs, rest, extendClass) ==
    LET baseClass == Get(baseAttrs, "class")
        baseRest == Without(baseAttrs, {"class"})
    IN  Spread(Spread(baseRest, rest),
               "class" :> Str(twMerge(ClassToks(baseClass) \o ClassToks(extendClass))))

RECURSIVE resolveExtend(_, _, _)
\* mutant: the target is taken as the catalogue has it, not resolved first
resolveExtend_OneLevel(normalized, st0, key) ==
    LET st == [st0 EXCEPT !.steps = @ + 1] IN
    IF key \in DOMAIN st.result THEN [st |-> st, ret |-> Obj(st.result[key])]
    ELSE IF key \notin DOMAIN normalized THEN [st |-> st, ret |-> Undef]
    ELSE LET value == normalized[key] IN
        IF "extend" \notin DOMAIN value
        THEN [st |-> [st EXCEPT !.result = (key :> value) @@ @], ret |-> Obj(value)]
        ELSE LET extendClass == Get(value, "class")
                 rest == Without(value, {"extend", "class"})
                 target == KeyOf(value["extend"])
             IN  IF target \notin DOMAIN normalized
                 THEN LET own == extendNotFound(rest, extendClass) IN
                      [st |-> [st EXCEPT !.result = (key :> own) @@ @,
                                         !.warns = Append(@, ExtendWarning("NotFound", key, target))],
                       ret |-> Obj(own)]
                 ELSE LET merged == extendMerged(Without(normalized[target], {"extend"}), rest, extendClass)
                      IN  [st |-> [st EXCEPT !.result = (key :> merged) @@ @], ret |-> Obj(merged)]

\* st = [result, resolving, warns, steps]: the two locals of processTheme, the
\* diagnostics emitted and the number of resolveExtend calls made so far;
\* returns the new st and the returned value (an object, or Undef for null)
resolveExtend(normalized, st0, key) ==
    LET st == [st0 EXCEPT !.steps = @ + 1] IN
    IF key \in DOMAIN st.result THEN [st |-> st, ret |-> Obj(st.result[key])]
    ELSE IF key \notin DOMAIN normalized THEN [st |-> st, ret |-> Undef]
    ELSE LET value == normalized[key] IN
        IF "extend" \notin DOMAIN value
        THEN [st |-> [st EXCEPT !.result = (key :> value) @@ @], ret |-> Obj(value)]
        ELSE IF key \in st.resolving
        THEN LET withoutExtend == Without(value, {"extend"}) IN
             [st |-> [st EXCEPT !.result = (key :> withoutExtend) @@ @,
                                !.warns = Append(@, ExtendWarning("Circular", key, KeyOf(value["extend"])))],
              ret |-> Obj(withoutExtend)]
        ELSE LET st1 == [st EXCEPT !.resolving = @ \cup {key}]
                 extendClass == Get(value, "class")
                 rest == Without(value, {"extend", "class"})
                 base == resolveExtend(normalized, st1, KeyOf(value["extend"]))
                 st2 == base.st
             IN  IF ~Truthy(base.ret)
                 THEN LET own == extendNotFound(rest, extendClass) IN
                      [st |-> [st2 EXCEPT !.result = (key :> own) @@ @,
                                          !.resolving = @ \ {key},
                                          !.warns = Append(@, ExtendWarning("NotFound", key, KeyOf(value["extend"])))],
                       ret |-> Obj(own)]
                 ELSE LET merged == extendMerged(base.ret.m, rest, extendClass)
                      IN  [st |-> [st2 EXCEPT !.result = (key :> merged) @@ @,
                                              !.resolving = @ \ {key}],
                           ret |-> Obj(merged)]

\* the keys of the catalogue that survive normalization, in iteration order
normalizedKeys(theme) ==
    SelectSeq(theme.keys, LAMBDA k : ~isEmpty(normalizeValue(theme.m[k])))

\* mutant: only the first key of normalized is resolved
processTheme_FirstKeyOnly(theme) ==
    LET keys == normalizedKeys(theme)
        normalized == [k \in {keys[i] : i \in 1..Len(keys)} |-> normalizeValue(theme.m[k])]
        st0 == [result |-> EmptyMap, resolving |-> {}, warns |-> <<>>, steps |-> 0]
    IN  IF keys = <<>> THEN st0 ELSE resolveExtend(normalized, st0, keys[1]).st

\* mutant: an entry can only extend the names visited before it
processTheme_VisitedOnly(theme) ==
    LET keys == normalizedKeys(theme)
        F[i \in 0..Len(keys)] ==
            IF i = 0 THEN [result |-> EmptyMap, resolving |-> {}, warns |-> <<>>, steps |-> 0]
            ELSE resolveExtend([k \in {keys[j] : j \in 1..i} |-> normalizeValue(theme.m[k])], F[i - 1], keys[i]).st
    IN  F[Len(keys)]

\* the uncached body of processTheme: returns [result, resolving, warns, steps]
\* after the loop over normalized
processTheme(theme) ==
    LET keys == normalizedKeys(theme)
        normalized == [k \in {keys[i] : i \in 1..Len(keys)} |-> normalizeValue(theme.m[k])]
        F[i \in 0..Len(keys)] ==
            IF i = 0 THEN [result |-> EmptyMap, resolving |-> {}, warns |-> <<>>, steps |-> 0]
            ELSE resolveExtend(normalized, F[i - 1], keys[i]).st
    IN  F[Len(keys)]

\* ---------------------------------------------------- Merge Strategy Helpers
\* mutant: merge unless the key says replace
getMergeStrategy_DefaultMerge(keyFlags, topLevelFlags) ==
    LET hasMerge == Get(keyFlags, "$merge") = True
        hasReplace == Get(keyFlags, "$replace") = True
    IN  [shouldMerge |-> ~hasReplace,
         shouldReplace |-> hasReplace,
         warnBothSet |-> hasMerge /\ hasReplace]

\* mutant: the top-level flags take priority over the key-level flags
getMergeStrategy_TopLevelFirst(keyFlags, topLevelFlags) ==
    LET hasMerge == Get(keyFlags, "$merge") = True
        hasReplace == Get(keyFlags, "$replace") = True
        topLevelMerge == Get(topLevelFlags, "$merge") = True
        topLevelReplace == Get(topLevelFlags, "$replace") = True
    IN  [shouldMerge |-> topLevelMerge \/ (hasMerge /\ ~topLevelReplace),
         shouldReplace |-> topLevelReplace \/ (hasReplace /\ ~topLevelMerge),
         warnBothSet |-> hasMerge /\ hasReplace]

getMergeStrategy(keyFlags, topLevelFlags) ==
    LET hasMerge == Get(keyFlags, "$merge") = True
        hasReplace == Get(keyFlags, "$replace") = True
        topLevelMerge == Get(topLevelFlags, "$merge") = True
        topLevelReplace == Get(topLevelFlags, "$replace") = True
    IN  [shouldMerge |-> hasMerge \/ (topLevelMerge /\ ~hasReplace),
         shouldReplace |-> hasReplace \/ (topLevelReplace /\ ~hasMerge),
         warnBothSet |-> hasMerge /\ hasReplace]

applyTailwindMerge(attrs) ==
    IF "class" \in DOMAIN attrs /\ attrs["class"].t # "undef"
    THEN Spread(attrs, "class" :> Str(twMerge(ClassToks(attrs["class"]))))
    ELSE attrs

\* mutant: the base attributes are merged on top of the additional ones
mergeAttrs_BaseOnTop(base, additional) ==
    IF isEmpty(additional) THEN base
    ELSE applyTailwindMerge(mergeProps(additional, base))

mergeAttrs(base, additional) ==
    IF isEmpty(additional) THEN base
    ELSE applyTailwindMerge(mergeProps(base, additional))

\* ------------------------------------------------------------ Core Functions
RECURSIVE mergePt(_, _)
\* mutant: a value only pt2 has is normalized before it is stored
mergePt_NormalizeNew(pt1, pt2) ==
    [key \in (DOMAIN pt1) \cup {k \in DOMAIN pt2 : Truthy(pt2[k])} |->
        LET val1 == Get(pt1, key)
            val2 == Get(pt2, key)
            normalized1 == IF isString(val1) THEN Obj(toClassObject(val1)) ELSE val1
            normalized2 == IF isString(val2) THEN Obj(toClassObject(val2)) ELSE val2
        IN  IF ~Truthy(val2) THEN val1
            ELSE IF ~Truthy(val1) THEN normalized2
            ELSE IF isObject(normalized1) /\ isObject(normalized2)
            THEN IF "class" \in DOMAIN normalized1.m \/ "class" \in DOMAIN normalized2.m
                 THEN Obj(applyTailwindMerge(mergeProps(normalized1.m, normalized2.m)))
                 ELSE Obj(mergePt(normalized1.m, normalized2.m))
            ELSE val2]

\* mutant: two class-free maps are not merged, pt2's map replaces pt1's
mergePt_NoRecursion(pt1, pt2) ==
    [key \in (DOMAIN pt1) \cup {k \in DOMAIN pt2 : Truthy(pt2[k])} |->
        LET val1 == Get(pt1, key)
            val2 == Get(pt2, key)
            normalized1 == IF isString(val1) THEN Obj(toClassObject(val1)) ELSE val1
            normalized2 == IF isString(val2) THEN Obj(toClassObject(val2)) ELSE val2
        IN  IF ~Truthy(val2) THEN val1
            ELSE IF ~Truthy(val1) THEN val2
            ELSE IF isObject(normalized1) /\ isObject(normalized2)
            THEN IF "class" \in DOMAIN normalized1.m \/ "class" \in DOMAIN normalized2.m
                 THEN Obj(applyTailwindMerge(mergeProps(normalized1.m, normalized2.m)))
                 ELSE val2
            ELSE val2]

mergePt(pt1, pt2) ==
    [key \in (DOMAIN pt1) \cup {k \in DOMAIN pt2 : Truthy(pt2[k])} |->
        LET val1 == Get(pt1, key)
            val2 == Get(pt2, key)
            normalized1 == IF isString(val1) THEN Obj(toClassObject(val1)) ELSE val1
            normalized2 == IF isString(val2) THEN Obj(toClassObject(val2)) ELSE val2
        IN  IF ~Truthy(val2) THEN val1
            ELSE IF ~Truthy(val1) THEN val2
            ELSE IF isObject(normalized1) /\ isObject(normalized2)
            THEN IF "class" \in DOMAIN normalized1.m \/ "class" \in DOMAIN normalized2.m
                 THEN Obj(applyTailwindMerge(mergeProps(normalized1.m, normalized2.m)))
                 ELSE Obj(mergePt(normalized1.m, normalized2.m))
            ELSE val2]

\* mutant: a map that carries class is returned like any other map
extractNestedPt_KeepClass(value) ==
    IF ~Truthy(value) THEN EmptyMap
    ELSE IF ~isObject(value) THEN EmptyMap
    ELSE value.m

extractNestedPt(value) ==
    IF ~Truthy(value) THEN EmptyMap
    ELSE IF ~isObject(value) THEN EmptyMap
    ELSE IF "class" \in DOMAIN value.m THEN EmptyMap
    ELSE value.m

\* mutant: the theme is merged on top of the pt value
ptAttrs_BaseWins(key, baseAttrs, pt) ==
    LET ptValue == Get(pt, key) IN
    IF ~Truthy(ptValue) THEN baseAttrs
    ELSE applyTailwindMerge(mergeProps(normalizeValue(ptValue), baseAttrs))

ptAttrs(key, baseAttrs, pt) ==
    LET ptValue == Get(pt, key) IN
    IF ~Truthy(ptValue) THEN baseAttrs
    ELSE applyTailwindMerge(mergeProps(baseAttrs, normalizeValue(ptValue)))

\* ------------------------------------------------- Composable: usePassThrough
VARIABLES
    theme,            \* the catalogue passed to usePassThrough
    normalizedTheme,  \* processTheme(theme), computed once in setup
    attrsPt,          \* attrsPt.value: the pt extracted from the attribute bag
    propsPt,          \* the value the propsPt ref currently holds
    out,              \* the last ptMark / ptFor call of this render and its result
    log,              \* diagnostics emitted (warn) by the last call
    chain,            \* the enclosing components: one record per ptFor hop above
    resolved,         \* the computed ref resolvedPropsPt: its dirty flag and cached value
    hist,             \* the values assigned to the propsPt ref since setup
    written,          \* the objects assigned into by the calls since setup
    catalogues,       \* the catalogue objects that exist; an object's identity is its index
    themeCache,       \* themeCache: catalogue object -> its resolved definitions
    calls,            \* the processTheme calls made so far, oldest first
    args,             \* <<pt1, pt2>>: the arguments of a direct mergePt call
    attrs,            \* useAttrs(): the attribute bag, its keys in order with their values
    propsArg          \* how usePassThrough got propsPt: "ref" (a ref or computed) or "value"

vars == <<theme, normalizedTheme, attrsPt, propsPt, out, log, chain, resolved, hist, written,
          catalogues, themeCache, calls, args, attrs, propsArg>>

\* mutant: the diagnostic is also emitted for a ref that holds undefined
requiredWarning_Unref(arg, p) ==
    IF p = Undef THEN <<Warning("PropsPtRequired", "")>> ELSE <<>>

\* if (propsPt === undefined) warn(...): the argument itself is undefined,
\* which is what an omitted argument is; a ref never is
requiredWarning(arg, p) ==
    IF arg = "value" /\ p = Undef THEN <<Warning("PropsPtRequired", "")>> ELSE <<>>

\* a resolved-definitions object: its content and its identity, the number
\* of the processTheme call that created it
Resolved(map, nr) == [result |-> map, obj |-> nr]

\* mutant: the cache is not consulted, every call resolves and stores again
processThemeCached_NoLookup(id, cache, cat, nr) ==
    LET st == processTheme(cat) IN
    [cache |-> (id :> Resolved(st.result, nr)) @@ cache,
     call |-> [id |-> id, hit |-> FALSE, wrote |-> TRUE, ret |-> st.result, obj |-> nr,
               warns |-> st.warns, resolving |-> st.resolving, steps |-> st.steps]]

\* processTheme with its cache, called for the nr-th time on the catalogue
\* object id: the cache afterwards and the record of the call (what it
\* returned and emitted, and the locals of the run; none on a cache hit)
processThemeCached(id, cache, cat, nr) ==
    IF id \in DOMAIN cache
    THEN [cache |-> cache,
          call |-> [id |-> id, hit |-> TRUE, wrote |-> FALSE, ret |-> cache[id].result, obj |-> cache[id].obj,
                    warns |-> <<>>, resolving |-> {}, steps |-> 0]]
    ELSE LET st == processTheme(cat) IN
         [cache |-> (id :> Resolved(st.result, nr)) @@ cache,
          call |-> [id |-> id, hit |-> FALSE, wrote |-> TRUE, ret |-> st.result, obj |-> nr,
                    warns |-> st.warns, resolving |-> st.resolving, steps |-> st.steps]]

\* the getter of resolvedPropsPt: unref(propsPt) || {}
resolvedPropsPt(p) == IF Truthy(p) THEN p.m ELSE EmptyMap

\* a computed ref (vue): created dirty, its getter runs on a read while it is
\* dirty, and a write to the ref it depends on marks it dirty again
NewComputed == [dirty |-> TRUE, value |-> EmptyMap]

\* resolvedPropsPt.value
evaluate(c, p) == IF c.dirty THEN resolvedPropsPt(p) ELSE c.value

\* the computed ref after a read
refresh(c, p) == [dirty |-> FALSE, value |-> evaluate(c, p)]

\* mutant: a write to propsPt does not invalidate the computed ref
trigger_Never(c) == c

\* the computed ref after a write to propsPt
trigger(c) == [c EXCEPT !.dirty = TRUE]

\* each operation returns [ret |-> the returned map, warns |-> the diagnostics]

\* mutant: a key whose value is undefined counts as absent
ptMark_UndefinedIsAbsent(key, nTheme, bag, p) ==
    LET propsValue == resolvedPropsPt(p)
        baseAttrs == IF key \in DOMAIN nTheme THEN nTheme[key] ELSE EmptyMap
        ptValue == Get(propsValue, key)
        topLevelFlags == ("$merge" :> Get(propsValue, "$merge")) @@ ("$replace" :> Get(propsValue, "$replace"))
        strategy == getMergeStrategy(ptValue.m, topLevelFlags)
        themeWithAttrs == ptAttrs(key, baseAttrs, bag)
        warns == IF isObject(ptValue) /\ strategy.warnBothSet THEN <<Warning("BothSet", key)>> ELSE <<>>
    IN  IF ptValue = Undef
        THEN [ret |-> themeWithAttrs, warns |-> <<>>]
        ELSE IF isObject(ptValue) /\ strategy.shouldMerge
        THEN [ret |-> mergeAttrs(themeWithAttrs, normalizeValue(Obj(Without(ptValue.m, FlagKeys)))),
              warns |-> warns]
        ELSE IF isObject(ptValue) /\ strategy.shouldReplace
        THEN [ret |-> normalizeValue(Obj(Without(ptValue.m, {"$replace"}))), warns |-> warns]
        ELSE IF ~isObject(ptValue) /\ Truthy(topLevelFlags["$merge"])
        THEN [ret |-> mergeAttrs(themeWithAttrs, normalizeValue(ptValue)), warns |-> warns]
        ELSE [ret |-> normalizeValue(ptValue), warns |-> warns]

ptMark(key, nTheme, bag, p) ==
    LET propsValue == resolvedPropsPt(p)
        baseAttrs == IF key \in DOMAIN nTheme THEN nTheme[key] ELSE EmptyMap
        ptValue == Get(propsValue, key)
        topLevelFlags == ("$merge" :> Get(propsValue, "$merge")) @@ ("$replace" :> Get(propsValue, "$replace"))
        strategy == getMergeStrategy(ptValue.m, topLevelFlags)
        themeWithAttrs == ptAttrs(key, baseAttrs, bag)
        warns == IF isObject(ptValue) /\ strategy.warnBothSet THEN <<Warning("BothSet", key)>> ELSE <<>>
    IN  IF key \notin DOMAIN propsValue
        THEN [ret |-> themeWithAttrs, warns |-> <<>>]
        ELSE IF isObject(ptValue) /\ strategy.shouldMerge
        THEN [ret |-> mergeAttrs(themeWithAttrs, normalizeValue(Obj(Without(ptValue.m, FlagKeys)))),
              warns |-> warns]
        ELSE IF isObject(ptValue) /\ strategy.shouldReplace
        THEN [ret |-> normalizeValue(Obj(Without(ptValue.m, {"$replace"}))), warns |-> warns]
        ELSE IF ~isObject(ptValue) /\ Truthy(topLevelFlags["$merge"])
        THEN [ret |-> mergeAttrs(themeWithAttrs, normalizeValue(ptValue)), warns |-> warns]
        ELSE [ret |-> normalizeValue(ptValue), warns |-> warns]

\* mutant: the $merge cascade is applied on the replace paths as well
ptFor_CascadeOnReplace(componentKey, nTheme, bag, p) ==
    LET propsValue == resolvedPropsPt(p)
        themePt == extractNestedPt(IF componentKey \in DOMAIN nTheme THEN Obj(nTheme[componentKey]) ELSE Undef)
        attrsPtNested == extractNestedPt(Get(bag, componentKey))
        propsNested == extractNestedPt(Get(propsValue, componentKey))
        strategy == getMergeStrategy(propsNested, EmptyMap)
        warns == IF strategy.warnBothSet THEN <<Warning("BothSet", componentKey)>> ELSE <<>>
        rest == Without(propsNested, FlagKeys)
        result1 == IF ~isEmpty(attrsPtNested) THEN mergePt(themePt, attrsPtNested) ELSE themePt
        result == IF ~isEmpty(rest) THEN mergePt(result1, rest) ELSE result1
    IN  IF componentKey \notin DOMAIN propsValue
        THEN [ret |-> IF ~isEmpty(attrsPtNested) THEN attrsPtNested ELSE themePt, warns |-> <<>>]
        ELSE IF strategy.shouldMerge
        THEN [ret |-> IF Truthy(Get(result, "$merge")) THEN result ELSE Spread("$merge" :> True, result),
              warns |-> warns]
        ELSE [ret |-> Spread(Without(propsNested, {"$replace"}), "$merge" :> True), warns |-> warns]

ptFor(componentKey, nTheme, bag, p) ==
    LET propsValue == resolvedPropsPt(p)
        themePt == extractNestedPt(IF componentKey \in DOMAIN nTheme THEN Obj(nTheme[componentKey]) ELSE Undef)
        attrsPtNested == extractNestedPt(Get(bag, componentKey))
        propsNested == extractNestedPt(Get(propsValue, componentKey))
        strategy == getMergeStrategy(propsNested, EmptyMap)
        warns == IF strategy.warnBothSet THEN <<Warning("BothSet", componentKey)>> ELSE <<>>
        rest == Without(propsNested, FlagKeys)
        result1 == IF ~isEmpty(attrsPtNested) THEN mergePt(themePt, attrsPtNested) ELSE themePt
        result == IF ~isEmpty(rest) THEN mergePt(result1, rest) ELSE result1
    IN  IF componentKey \notin DOMAIN propsValue
        THEN [ret |-> IF ~isEmpty(attrsPtNested) THEN attrsPtNested ELSE themePt, warns |-> <<>>]
        ELSE IF strategy.shouldMerge
        THEN [ret |-> IF Truthy(Get(result, "$merge")) THEN result ELSE Spread("$merge" :> True, result),
              warns |-> warns]
        ELSE IF strategy.shouldReplace
        THEN [ret |-> Without(propsNested, {"$replace"}), warns |-> warns]
        ELSE [ret |-> propsNested, warns |-> warns]

\* ------------------------------------------------------ objects and writes
\* Which object an operation returns and which objects it assigns into:
\* "theme" is the catalogue or a cached resolved definition (processTheme
\* stores the catalogue's own entry objects), "bag" the attrsPt map, "props"
\* the props.pt object, "new" an object created during the call.
InputObjects == {"theme", "bag", "props"}

\* normalizeValue returns an object as it is and a new map for anything else
normalizeValueFx(v, from) == IF isObject(v) THEN from ELSE "new"

\* extractNestedPt returns the value itself or a new {}
extractNestedPtFx(value, from) ==
    IF Truthy(value) /\ isObject(value) /\ "class" \notin DOMAIN value.m THEN from ELSE "new"

\* mutant: the pt value is merged into baseAttrs in place
ptAttrsFx_InPlace(key, baseAttrs, baseFrom, pt) ==
    LET ptValue == Get(pt, key) IN
    IF ~Truthy(ptValue) THEN [from |-> baseFrom, writes |-> {}]
    ELSE [from |-> baseFrom, writes |-> {baseFrom}]

\* ptAttrs: baseAttrs itself, or the new object of mergeProps whose class is
\* then assigned (merged.class = ...)
ptAttrsFx(key, baseAttrs, baseFrom, pt) ==
    LET ptValue == Get(pt, key)
        merged == mergeProps(baseAttrs, normalizeValue(ptValue))
    IN  IF ~Truthy(ptValue) THEN [from |-> baseFrom, writes |-> {}]
        ELSE [from |-> "new",
              writes |-> IF Get(merged, "class").t # "undef" THEN {"new"} ELSE {}]

\* mergeAttrs: base itself, or the new object of applyTailwindMerge / mergeProps
mergeAttrsFx(baseFrom, additional) == IF isEmpty(additional) THEN baseFrom ELSE "new"

\* mergePt: result = { ...pt1 } is new and every assignment goes into it
mergePtFx(pt1, pt2) ==
    [from |-> "new", writes |-> IF \E k \in DOMAIN pt2 : Truthy(pt2[k]) THEN {"new"} ELSE {}]

ptMarkFx(key, nTheme, bag, p) ==
    LET propsValue == resolvedPropsPt(p)
        baseAttrs == IF key \in DOMAIN nTheme THEN nTheme[key] ELSE EmptyMap
        baseFrom == IF key \in DOMAIN nTheme THEN "theme" ELSE "new"
        ptValue == Get(propsValue, key)
        topLevelFlags == ("$merge" :> Get(propsValue, "$merge")) @@ ("$replace" :> Get(propsValue, "$replace"))
        strategy == getMergeStrategy(ptValue.m, topLevelFlags)
        themeWithAttrs == ptAttrsFx(key, baseAttrs, baseFrom, bag)
    IN  IF key \notin DOMAIN propsValue
        THEN themeWithAttrs
        ELSE IF isObject(ptValue) /\ strategy.shouldMerge
        THEN [from |-> mergeAttrsFx(themeWithAttrs.from, normalizeValue(Obj(Without(ptValue.m, FlagKeys)))),
              writes |-> themeWithAttrs.writes]
        ELSE IF isObject(ptValue) /\ strategy.shouldReplace
        THEN [from |-> "new", writes |-> {}]
        ELSE IF ~isObject(ptValue) /\ Truthy(topLevelFlags["$merge"])
        THEN [from |-> mergeAttrsFx(themeWithAttrs.from, normalizeValue(ptValue)),
              writes |-> themeWithAttrs.writes]
        ELSE [from |-> normalizeValueFx(ptValue, "props"), writes |-> {}]

ptForFx(componentKey, nTheme, bag, p) ==
    LET propsValue == resolvedPropsPt(p)
        themeValue == IF componentKey \in DOMAIN nTheme THEN Obj(nTheme[componentKey]) ELSE Undef
        themePt == extractNestedPt(themeValue)
        attrsPtNested == extractNestedPt(Get(bag, componentKey))
        propsNested == extractNestedPt(Get(propsValue, componentKey))
        strategy == getMergeStrategy(propsNested, EmptyMap)
        rest == Without(propsNested, FlagKeys)
        fx0 == [from |-> extractNestedPtFx(themeValue, "theme"), writes |-> {}]
        result1 == IF ~isEmpty(attrsPtNested) THEN mergePt(themePt, attrsPtNested) ELSE themePt
        fx1 == IF ~isEmpty(attrsPtNested) THEN mergePtFx(themePt, attrsPtNested) ELSE fx0
        result == IF ~isEmpty(rest) THEN mergePt(result1, rest) ELSE result1
        fx == IF ~isEmpty(rest)
              THEN [from |-> "new", writes |-> fx1.writes \cup mergePtFx(result1, rest).writes]
              ELSE fx1
    IN  IF componentKey \notin DOMAIN propsValue
        THEN [from |-> IF ~isEmpty(attrsPtNested) THEN extractNestedPtFx(Get(bag, componentKey), "bag") ELSE fx0.from,
              writes |-> {}]
        ELSE IF strategy.shouldMerge
        THEN [from |-> IF Truthy(Get(result, "$merge")) THEN fx.from ELSE "new", writes |-> fx.writes]
        ELSE IF strategy.shouldReplace
        THEN [from |-> "new", writes |-> {}]
        ELSE [from |-> extractNestedPtFx(Get(propsValue, componentKey), "props"), writes |-> {}]

\* ------------------------------------------------------------------- inputs
MaxClassLen == 2
MaxDepth == 3

SeqsUpTo(S, n) == UNION {[1..k -> S] : k \in 0..n}

\* an object literal with the given keys, in order
Lit(keys, map) == [keys |-> keys, m |-> map]

CatClasses == SeqsUpTo({"p-2", "p-4"}, MaxClassLen)

Themes ==
    {Lit(<<"root">>, "root" :> Str(c)) : c \in CatClasses}
    \cup {
      Lit(<<>>, EmptyMap),
      Lit(<<"root">>, "root" :> Str(<<"card">>)),
      Lit(<<"root">>, "root" :> Obj(("class" :> Str(<<"p-2", "grid">>)) @@ ("id" :> Str(<<"cat-id">>)))),
      Lit(<<"root">>, "root" :> Obj("id" :> Str(<<"cat-id">>))),
      Lit(<<"root", "input">>,
          ("root" :> Obj(("extend" :> Str(<<"input">>)) @@ ("class" :> Str(<<"p-4">>))))
          @@ ("input" :> Str(<<"p-2", "grid">>))),
      Lit(<<"root", "badge">>,
          ("root" :> Str(<<"grid">>))
          @@ ("badge" :> Obj(("root" :> Str(<<"p-2">>)) @@ ("label" :> Str(<<"text-sm">>))))),
      Lit(<<"root", "badge">>,
          ("root" :> Str(<<"grid">>))
          @@ ("badge" :> Obj(("$merge" :> True) @@ ("root" :> Str(<<"p-2">>))))),
      Lit(<<"badge">>, "badge" :> Obj(("$merge" :> False) @@ ("root" :> Str(<<"p-2">>)))),
      Lit(<<"badge">>, "badge" :> Obj(("class" :> Str(<<"p-2">>)) @@ ("id" :> Str(<<"cat-id">>))))
    }

Bags == {
    EmptyMap,
    "root" :> Obj("class" :> Str(<<"p-4">>)),
    "root" :> Obj(("class" :> Str(<<"flex">>)) @@ ("id" :> Str(<<"bag-id">>))),
    "root" :> Str(<<"text-sm">>),
    "root" :> Obj("class" :> Str(<<"card">>)),
    "badge" :> Obj(("root" :> Obj("class" :> Str(<<"flex">>))) @@ ("icon" :> Str(<<"text-sm">>))),
    "badge" :> Obj("class" :> Str(<<"flex">>))
  }

FlagValues == {True, False, Undef}

\* every setting of the two flags: true, false or absent
FlagCombos ==
    {(IF mg = Undef THEN EmptyMap ELSE "$merge" :> mg) @@ (IF rp = Undef THEN EmptyMap ELSE "$replace" :> rp) :
        mg \in FlagValues, rp \in FlagValues}

\* what props.pt holds under one name
RootValues ==
    {Str(<<"flex", "text-lg">>), Str(<<>>), Undef, True, False, Fn(<<"f">>)}
    \cup {Obj(f @@ b) : f \in FlagCombos,
                        b \in {EmptyMap, ("class" :> Str(<<"p-4", "flex">>)) @@ ("id" :> Str(<<"ext-id">>))}}

BadgeValues ==
    {Str(<<"flex">>), Obj("class" :> Str(<<"flex">>))}
    \cup {Obj(f @@ ("root" :> Str(<<"text-lg">>)) @@ ("icon" :> Str(<<"p-4">>))) : f \in FlagCombos}

Entries ==
    {EmptyMap} \cup {"root" :> v : v \in RootValues} \cup {"badge" :> v : v \in BadgeValues}

PropsPtValues == {Undef} \cup {Obj(f @@ e) : f \in FlagCombos, e \in Entries}

Names == {"root", "badge"}

NoCall == [op |-> "none", key |-> "", ret |-> EmptyMap, from |-> "new"]

\* ------------------------------------------------------------------ actions
\* usePassThrough(theme, propsPt): setup of one component, for every catalogue,
\* attribute bag and props.pt of the input sets
Init ==
    /\ theme \in Themes
    /\ normalizedTheme = processTheme(theme).result
    /\ attrsPt \in Bags
    /\ propsPt \in PropsPtValues
    /\ out = NoCall
    /\ log = processTheme(theme).warns
    /\ chain = <<>>
    /\ resolved = NewComputed
    /\ hist = <<>>
    /\ written = {}
    /\ catalogues = <<theme>>
    /\ themeCache = processThemeCached(1, <<>>, theme, 1).cache
    /\ calls = <<processThemeCached(1, <<>>, theme, 1).call>>
    /\ args = <<EmptyMap, EmptyMap>>
    /\ attrs = <<>>
    /\ propsArg = "ref"

CallPtMark ==
    \E key \in Names :
        LET r == ptMark(key, normalizedTheme, attrsPt, Obj(evaluate(resolved, propsPt)))
            fx == ptMarkFx(key, normalizedTheme, attrsPt, Obj(evaluate(resolved, propsPt)))
        IN
        /\ out' = [op |-> "ptMark", key |-> key, ret |-> r.ret, from |-> fx.from]
        /\ log' = r.warns
        /\ written' = written \cup fx.writes
        /\ resolved' = refresh(resolved, propsPt)
        /\ UNCHANGED <<theme, normalizedTheme, attrsPt, propsPt, chain, hist, catalogues, themeCache, calls, args, attrs, propsArg>>

CallPtFor ==
    \E key \in Names :
        LET r == ptFor(key, normalizedTheme, attrsPt, Obj(evaluate(resolved, propsPt)))
            fx == ptForFx(key, normalizedTheme, attrsPt, Obj(evaluate(resolved, propsPt)))
        IN
        /\ out' = [op |-> "ptFor", key |-> key, ret |-> r.ret, from |-> fx.from]
        /\ log' = r.warns
        /\ written' = written \cup fx.writes
        /\ resolved' = refresh(resolved, propsPt)
        /\ UNCHANGED <<theme, normalizedTheme, attrsPt, propsPt, chain, hist, catalogues, themeCache, calls, args, attrs, propsArg>>

Next == CallPtMark \/ CallPtFor

Spec == Init /\ [][Next]_vars

\* ------------------------------------------------------- nested components
\* <Badge :pt="ptFor('badge')" />: a chain of components, each forwarding the
\* override of 'badge' to the component it renders.
LevelTok == <<"lvl-1", "lvl-2", "lvl-3", "lvl-4", "lvl-5">>

Level == Len(chain) + 1

RECURSIVE NestedSpec(_, _)
\* an override of root for the child and for d more descendants below it
NestedSpec(tok, d) ==
    IF d = 0 THEN "root" :> Str(<<tok>>)
    ELSE ("root" :> Str(<<tok>>)) @@ ("badge" :> Obj(NestedSpec(tok, d - 1)))

\* the catalogues a component at level k may have: its own root class and
\* defaults for the components below it, with or without $merge
ChainThemes(k) ==
    {Lit(<<"root", "badge">>,
         ("root" :> Str(<<LevelTok[k]>>)) @@ ("badge" :> Obj(f @@ NestedSpec(LevelTok[k], MaxDepth))))
        : f \in {EmptyMap, "$merge" :> True}}

ChainBags == {EmptyMap, "badge" :> Obj("root" :> Obj("class" :> Str(<<"bag">>)))}

\* what the page passes to the outermost component
ChainProps ==
    {Undef}
    \cup {Obj("badge" :> Obj(f @@ NestedSpec("ext", MaxDepth))) :
            f \in FlagCombos}

ChainInit ==
    /\ theme \in ChainThemes(1)
    /\ normalizedTheme = processTheme(theme).result
    /\ attrsPt \in ChainBags
    /\ propsPt \in ChainProps
    /\ out = NoCall
    /\ log = processTheme(theme).warns
    /\ chain = <<>>
    /\ resolved = NewComputed
    /\ hist = <<>>
    /\ written = {}
    /\ catalogues = <<theme>>
    /\ themeCache = processThemeCached(1, <<>>, theme, 1).cache
    /\ calls = <<processThemeCached(1, <<>>, theme, 1).call>>
    /\ args = <<EmptyMap, EmptyMap>>
    /\ attrs = <<>>
    /\ propsArg = "ref"

\* the component renders its child with :pt="ptFor('badge')"; the child runs
\* usePassThrough with its own catalogue
Descend ==
    /\ Level < MaxDepth
    /\ LET r == ptFor("badge", normalizedTheme, attrsPt, Obj(evaluate(resolved, propsPt))) IN
        /\ chain' = Append(chain, [theme |-> theme, attrsPt |-> attrsPt, propsPt |-> propsPt, fwd |-> r.ret])
        /\ propsPt' = Obj(r.ret)
    /\ theme' \in ChainThemes(Level + 1)
    /\ normalizedTheme' = processTheme(theme').result
    /\ attrsPt' \in ChainBags
    /\ out' = NoCall
    /\ log' = processTheme(theme').warns
    /\ resolved' = NewComputed
    /\ hist' = <<>>
    /\ written' = written \cup ptForFx("badge", normalizedTheme, attrsPt, Obj(evaluate(resolved, propsPt))).writes
    /\ catalogues' = Append(catalogues, theme')
    /\ themeCache' = processThemeCached(Len(catalogues) + 1, themeCache, theme', Len(calls) + 1).cache
    /\ calls' = Append(calls, processThemeCached(Len(catalogues) + 1, themeCache, theme', Len(calls) + 1).call)
    /\ UNCHANGED <<args, attrs, propsArg>>

ChainNext == CallPtMark \/ CallPtFor \/ Descend

ChainSpec == ChainInit /\ [][ChainNext]_vars

\* ---------------------------------------------------------------- reactivity
\* the parent assigns new values to the ref passed as propsPt; every
\* assignment schedules a new render, which calls ptMark / ptFor again
MaxAssign == 2

ReactiveThemes == {
    Lit(<<"root", "badge">>,
        ("root" :> Str(<<"p-2", "grid">>))
        @@ ("badge" :> Obj(("root" :> Str(<<"p-2">>)) @@ ("label" :> Str(<<"text-sm">>))))),
    Lit(<<"root">>, "root" :> Obj(("class" :> Str(<<"card">>)) @@ ("id" :> Str(<<"cat-id">>))))
  }

ReactiveBags == {
    EmptyMap,
    ("root" :> Str(<<"text-sm">>)) @@ ("badge" :> Obj("icon" :> Str(<<"text-sm">>)))
  }

ReactiveProps == {
    Undef,
    Obj("root" :> Str(<<"flex", "text-lg">>)),
    Obj("root" :> Obj(("$merge" :> True) @@ ("class" :> Str(<<"p-4", "flex">>)))),
    Obj(("$merge" :> True) @@ ("root" :> Str(<<"flex">>))),
    Obj("badge" :> Obj(("root" :> Str(<<"text-lg">>)) @@ ("icon" :> Str(<<"p-4">>)))),
    Obj("badge" :> Obj(("$merge" :> True) @@ ("root" :> Str(<<"text-lg">>))))
  }

ReactiveInit ==
    /\ theme \in ReactiveThemes
    /\ normalizedTheme = processTheme(theme).result
    /\ attrsPt \in ReactiveBags
    /\ propsPt \in ReactiveProps
    /\ out = NoCall
    /\ log = processTheme(theme).warns
    /\ chain = <<>>
    /\ resolved = NewComputed
    /\ hist = <<>>
    /\ written = {}
    /\ catalogues = <<theme>>
    /\ themeCache = processThemeCached(1, <<>>, theme, 1).cache
    /\ calls = <<processThemeCached(1, <<>>, theme, 1).call>>
    /\ args = <<EmptyMap, EmptyMap>>
    /\ attrs = <<>>
    /\ propsArg = "ref"

\* propsPt.value = v
AssignPropsPt ==
    /\ Len(hist) < MaxAssign
    /\ \E v \in ReactiveProps :
        /\ propsPt' = v
        /\ hist' = Append(hist, [v |-> v, read |-> ~resolved.dirty])
    /\ resolved' = trigger(resolved)
    /\ out' = NoCall
    /\ log' = <<>>
    /\ UNCHANGED <<theme, normalizedTheme, attrsPt, chain, written, catalogues, themeCache, calls, args, attrs, propsArg>>

ReactiveNext == CallPtMark \/ CallPtFor \/ AssignPropsPt

ReactiveSpec == ReactiveInit /\ [][ReactiveNext]_vars

\* ------------------------------------------------------------ processTheme
\* Components are set up with catalogues that extend one another's entries;
\* every setup calls processTheme on its catalogue object.
MaxCalls == 3

EntryNames == {"a", "b", "c"}

ClassOf == ("a" :> <<"a-class">>) @@ ("b" :> <<"b-class", "p-2">>) @@ ("c" :> <<"p-4">>)

IdOf == ("a" :> <<"a-id">>) @@ ("b" :> <<"b-id">>) @@ ("c" :> <<"c-id">>)

\* what a catalogue may hold under name k; Undef stands for no such key
EntryValues(k) ==
    {Undef, True, Str(ClassOf[k]),
     Obj(("class" :> Str(ClassOf[k])) @@ ("id" :> Str(IdOf[k])) @@ ("title" :> Str(<<k>>)))}
    \cup {Obj(("extend" :> Str(<<x>>)) @@ ("class" :> Str(ClassOf[k])) @@ ("id" :> Str(IdOf[k]))) :
            x \in EntryNames \cup {"zz"}}
    \cup {Obj(("extend" :> Str(<<x>>)) @@ ("id" :> Str(IdOf[k]))) : x \in EntryNames \cup {"zz"}}

\* the object literal with the given values, its keys in the given order
LitOf(order, vals) ==
    LET keys == SelectSeq(order, LAMBDA k : vals[k] # Undef) IN
    Lit(keys, [k \in {keys[i] : i \in 1..Len(keys)} |-> vals[k]])

ExtendThemes ==
    {LitOf(order, ("a" :> va) @@ ("b" :> vb) @@ ("c" :> vc)) :
        order \in {<<"a", "b", "c">>, <<"c", "b", "a">>},
        va \in EntryValues("a"), vb \in EntryValues("b"), vc \in EntryValues("c")}

OtherTheme == Lit(<<"root">>, "root" :> Str(<<"grid">>))

ThemeInit ==
    /\ \E t \in ExtendThemes : \E u \in {t, OtherTheme} : catalogues = <<t, u>>
    /\ themeCache = <<>>
    /\ calls = <<>>
    /\ theme = Lit(<<>>, EmptyMap)
    /\ normalizedTheme = EmptyMap
    /\ attrsPt = EmptyMap
    /\ propsPt = Undef
    /\ out = NoCall
    /\ log = <<>>
    /\ chain = <<>>
    /\ resolved = NewComputed
    /\ hist = <<>>
    /\ written = {}
    /\ args = <<EmptyMap, EmptyMap>>
    /\ attrs = <<>>
    /\ propsArg = "ref"

\* usePassThrough(catalogues[id], ref(undefined)): the setup of a component
Setup ==
    /\ Len(calls) < MaxCalls
    /\ \E id \in 1..Len(catalogues) :
        LET r == processThemeCached(id, themeCache, catalogues[id], Len(calls) + 1) IN
        /\ calls' = Append(calls, r.call)
        /\ themeCache' = r.cache
        /\ theme' = catalogues[id]
        /\ normalizedTheme' = r.call.ret
        /\ log' = r.call.warns
    /\ out' = NoCall
    /\ resolved' = NewComputed
    /\ hist' = <<>>
    /\ UNCHANGED <<attrsPt, propsPt, chain, written, catalogues, args, attrs, propsArg>>

ThemeNext == Setup

ThemeSpec == ThemeInit /\ [][ThemeNext]_vars

\* ----------------------------------------------------------------- mergePt
\* mergePt is exported: it is called directly on two pt maps
PtKeys == {"root", "badge"}

\* what either map may hold under a key, for the side named by tag
PtValues(tag) == {
    Undef, Str(<<>>), True, Fn(<<tag>>),
    Str(<<"p-2", "grid">>),
    Str(<<"card">>),
    Obj(("class" :> Str(<<"p-4", "flex">>)) @@ ("id" :> Str(<<tag>>)) @@ ("onClick" :> Fn(<<tag>>))
        @@ ("style" :> Obj(("color" :> Str(<<tag>>)) @@ (tag :> Str(<<"1">>))))),
    Obj("class" :> Str(<<"card">>)),
    Obj(("root" :> Str(<<"p-2">>)) @@ (tag :> Str(<<"text-sm">>))),
    Obj(("root" :> Obj("class" :> Str(<<"p-4">>))) @@ ("icon" :> Str(<<>>)))
  }

PtMaps(tag) == UNION {[keys -> PtValues(tag)] : keys \in SUBSET PtKeys}

MergeInit ==
    /\ args \in PtMaps("a") \X PtMaps("b")
    /\ attrs = <<>>
    /\ propsArg = "ref"
    /\ out = NoCall
    /\ written = {}
    /\ theme = Lit(<<>>, EmptyMap)
    /\ normalizedTheme = EmptyMap
    /\ attrsPt = EmptyMap
    /\ propsPt = Undef
    /\ log = <<>>
    /\ chain = <<>>
    /\ resolved = NewComputed
    /\ hist = <<>>
    /\ catalogues = <<>>
    /\ themeCache = <<>>
    /\ calls = <<>>

\* mergePt(pt1, pt2)
CallMergePt ==
    /\ out' = [op |-> "mergePt", key |-> "", ret |-> mergePt(args[1], args[2]),
               from |-> mergePtFx(args[1], args[2]).from]
    /\ written' = written \cup mergePtFx(args[1], args[2]).writes
    /\ UNCHANGED <<theme, normalizedTheme, attrsPt, propsPt, log, chain, resolved, hist,
                   catalogues, themeCache, calls, args, attrs, propsArg>>

MergeNext == CallMergePt

MergeSpec == MergeInit /\ [][MergeNext]_vars

\* ---------------------------------------------------------- event handlers
\* Catalogue, attribute bag and props.pt each bind a callback to the same
\* event of one element; the callbacks are named, one name is one function.
Handlers == {"f", "g", "h"}

\* the attribute maps a source may give for an element: with or without a
\* class, with or without a callback on click
EventAttrs(cls, hs) ==
    {Obj("class" :> Str(cls))}
    \cup {Obj(("class" :> Str(cls)) @@ ("onClick" :> Fn(<<x>>))) : x \in hs}
    \cup {Obj(("id" :> Str(<<"el">>)) @@ ("onClick" :> Fn(<<x>>))) : x \in hs}

EventThemes == {Lit(<<"root">>, "root" :> v) : v \in EventAttrs(<<"p-2">>, {"f", "g"})}

EventBags == {EmptyMap} \cup {"root" :> v : v \in EventAttrs(<<"p-4">>, {"f", "g"})}

EventProps ==
    {Undef}
    \cup {Obj("root" :> Obj(("$merge" :> True) @@ v.m)) : v \in EventAttrs(<<"flex">>, Handlers)}
    \cup {Obj(("$merge" :> True) @@ ("root" :> Str(<<"flex">>))),
          Obj("root" :> Obj(("class" :> Str(<<"flex">>)) @@ ("onClick" :> Fn(<<"h">>))))}

EventArgs ==
    {<<"root" :> a, "root" :> b>> :
        a \in EventAttrs(<<"p-2">>, {"f", "g"}) \cup {Str(<<"p-2">>)},
        b \in EventAttrs(<<"p-4">>, {"g", "h"}) \cup {Str(<<"p-4">>)}}

EventInit ==
    /\ theme \in EventThemes
    /\ normalizedTheme = processTheme(theme).result
    /\ attrsPt \in EventBags
    /\ propsPt \in EventProps
    /\ args \in EventArgs
    /\ attrs = <<>>
    /\ propsArg = "ref"
    /\ out = NoCall
    /\ log = processTheme(theme).warns
    /\ chain = <<>>
    /\ resolved = NewComputed
    /\ hist = <<>>
    /\ written = {}
    /\ catalogues = <<theme>>
    /\ themeCache = processThemeCached(1, <<>>, theme, 1).cache
    /\ calls = <<processThemeCached(1, <<>>, theme, 1).call>>

EventNext == CallPtMark \/ CallMergePt

EventSpec == EventInit /\ [][EventNext]_vars

\* --------------------------------------------------------------- attrsToPt
\* attrsToPt assigns into objects, so the objects it can reach live in a
\* heap: a sequence of maps, the n-th one referred to by Ref(n). A heap value
\* is a primitive (string, callback, ...) or a reference.
Ref(n) == [t |-> "ref", s |-> <<>>, m |-> <<>>, id |-> n]

isRef(v) == v.t = "ref"

RECURSIVE Deref(_, _)
\* the value a heap value denotes, objects read through
Deref(heap, v) ==
    IF isRef(v) THEN Obj([k \in DOMAIN heap[v.id] |-> Deref(heap, heap[v.id][k])]) ELSE v

\* the elements of a finite set, in some order
SeqOf(S) == CHOOSE q \in [1..Cardinality(S) -> S] : {q[i] : i \in 1..Cardinality(S)} = S

RECURSIVE Load(_, _)
\* a value as it is held in memory: every object of v becomes a heap cell of
\* its own; returns the heap and the heap value
Load(heap, v) ==
    IF ~isObject(v) THEN [heap |-> heap, v |-> v]
    ELSE LET ks == SeqOf(DOMAIN v.m)
             F[i \in 0..Len(ks)] ==
                IF i = 0 THEN [heap |-> heap, m |-> EmptyMap]
                ELSE LET prev == F[i - 1]
                         r == Load(prev.heap, v.m[ks[i]])
                     IN  [heap |-> r.heap, m |-> (ks[i] :> r.v) @@ prev.m]
             end == F[Len(ks)]
         IN  [heap |-> Append(end.heap, end.m), v |-> Ref(Len(end.heap) + 1)]

\* obj[key] = value
Assign(heap, obj, key, value) == [heap EXCEPT ![obj] = (key :> value) @@ @]

\* obj[key] = {}
AssignNew(heap, obj, key) == Assign(Append(heap, EmptyMap), obj, key, Ref(Len(heap) + 1))

\* mutant: the value replaces the class the key already has
mergeSingleKeyAttr_Overwrite(heap, pt, key, value) ==
    IF key = "" THEN heap
    ELSE LET h1 == IF key \notin DOMAIN heap[pt] THEN AssignNew(heap, pt, key) ELSE heap
             current == h1[pt][key]
         IN  IF isRef(current) THEN Assign(h1, current.id, "class", value)
             ELSE Assign(Append(h1, toClassObject(value)), pt, key, Ref(Len(h1) + 1))

\* pt is the cell of the map under construction
mergeSingleKeyAttr(heap, pt, key, value) ==
    IF key = "" THEN heap
    ELSE LET h1 == IF key \notin DOMAIN heap[pt] THEN AssignNew(heap, pt, key) ELSE heap
             current == h1[pt][key]
         IN  IF isRef(current)
             THEN LET existingClass == Get(h1[current.id], "class") IN
                  Assign(h1, current.id, "class",
                         IF isRef(existingClass) \/ Truthy(existingClass)
                         THEN Str(twMerge(ClassToks(existingClass) \o ClassToks(value)))
                         ELSE value)
             ELSE Assign(Append(h1, toClassObject(value)), pt, key, Ref(Len(h1) + 1))

\* mutant: the intermediate maps are always created anew
mergeNestedAttr_FreshPath(heap, pt, keys, value) ==
    LET F[i \in 0..(Len(keys) - 1)] ==
            IF i = 0 THEN [heap |-> heap, current |-> pt]
            ELSE LET st == F[i - 1]
                     key == keys[i]
                     h1 == AssignNew(st.heap, st.current, key)
                 IN  IF key = "" THEN st ELSE [heap |-> h1, current |-> h1[st.current][key].id]
        st == F[Len(keys) - 1]
        lastKey == keys[Len(keys)]
    IN  IF lastKey # "" THEN Assign(st.heap, st.current, lastKey, value) ELSE st.heap

mergeNestedAttr(heap, pt, keys, value) ==
    LET F[i \in 0..(Len(keys) - 1)] ==
            IF i = 0 THEN [heap |-> heap, current |-> pt]
            ELSE LET st == F[i - 1]
                     key == keys[i]
                     h1 == IF key \notin DOMAIN st.heap[st.current] \/ ~isRef(st.heap[st.current][key])
                           THEN AssignNew(st.heap, st.current, key)
                           ELSE st.heap
                 IN  IF key = "" THEN st ELSE [heap |-> h1, current |-> h1[st.current][key].id]
        st == F[Len(keys) - 1]
        lastKey == keys[Len(keys)]
    IN  IF lastKey # "" THEN Assign(st.heap, st.current, lastKey, value) ELSE st.heap

\* An attribute name is the sequence of its ':'-separated segments:
\* 'pt' is <<"pt">> and 'pt:root:id' is <<"pt", "root", "id">>.
startsWithPt(attrKey) == Len(attrKey) >= 2 /\ attrKey[1] = "pt"

\* mutant: the :pt object is merged under the map built from the pt:* keys
mergeObjectPt_Under(pt, objectPt) == mergePt(objectPt, pt)

\* return objectPt ? mergePt(pt, objectPt) : pt, on the final maps
mergeObjectPt(pt, objectPt) == mergePt(pt, objectPt)

\* bag is the value of useAttrs(): a sequence of [key, value], in key order.
\* Returns the result (ret), the bag as it is after the call (attrs) and the
\* map under construction after each key of the loop (trace).
attrsToPt(bag) ==
    LET L[i \in 0..Len(bag)] ==
            IF i = 0 THEN [heap |-> <<>>, vals |-> <<>>]
            ELSE LET prev == L[i - 1]
                     r == Load(prev.heap, bag[i].value)
                 IN  [heap |-> r.heap, vals |-> Append(prev.vals, r.v)]
        loaded == L[Len(bag)]
        vals == loaded.vals
        pt == Len(loaded.heap) + 1
        F[i \in 0..Len(bag)] ==
            IF i = 0 THEN [heap |-> Append(loaded.heap, EmptyMap), objectPt |-> Undef]
            ELSE LET st == F[i - 1]
                     attrKey == bag[i].key
                     keys == Tail(attrKey)
                 IN  IF attrKey = <<"pt">>
                     THEN IF isRef(vals[i]) THEN [st EXCEPT !.objectPt = vals[i]] ELSE st
                     ELSE IF ~startsWithPt(attrKey) THEN st
                     ELSE IF Len(keys) = 1
                     THEN [st EXCEPT !.heap = mergeSingleKeyAttr(st.heap, pt, keys[1], vals[i])]
                     ELSE [st EXCEPT !.heap = mergeNestedAttr(st.heap, pt, keys, vals[i])]
        end == F[Len(bag)]
        built == Deref(end.heap, Ref(pt)).m
    IN  [ret |-> IF isRef(end.objectPt) THEN mergeObjectPt(built, Deref(end.heap, end.objectPt).m) ELSE built,
         attrs |-> [i \in 1..Len(bag) |-> [key |-> bag[i].key, value |-> Deref(end.heap, vals[i])]],
         trace |-> [i \in 1..Len(bag) |-> Deref(F[i].heap, Ref(pt)).m]]

\* the bags: up to MaxAttrs attributes with different names, in every order
MaxAttrs == 3

AttrValues ==
    (<<"pt">> :> {Obj("root" :> Str(<<"p-4", "grid">>)),
                  Obj(("root" :> Obj(("class" :> Str(<<"p-4">>)) @@ ("id" :> Str(<<"pt-id">>))))
                      @@ ("helper" :> Str(<<"text-sm">>))),
                  Str(<<"invalid">>)})
    @@ (<<"pt", "root">> :> {Str(<<"p-2", "flex">>), Str(<<"p-2", "p-4">>), Str(<<>>)})
    @@ (<<"pt", "input">> :> {Str(<<"border">>)})
    @@ (<<"pt", "root", "class">> :> {Str(<<"p-4", "card">>), Str(<<>>)})
    @@ (<<"pt", "root", "id">> :> {Str(<<"my-id">>)})
    @@ (<<"pt", "root", "onClick">> :> {Fn(<<"f">>)})
    @@ (<<"pt", "root", "style">> :> {Obj("color" :> Str(<<"blue">>)), Obj("nested" :> Obj("deep" :> Str(<<"value">>)))})
    @@ (<<"pt", "root", "style", "color">> :> {Str(<<"red">>)})
    @@ (<<"class">> :> {Str(<<"some-class">>)})

AttrKeys == DOMAIN AttrValues

RECURSIVE BagsOf(_)
\* the bags whose keys are ks, in that order
BagsOf(ks) ==
    IF ks = <<>> THEN {<<>>}
    ELSE {Append(b, [key |-> ks[Len(ks)], value |-> v]) :
            b \in BagsOf(SubSeq(ks, 1, Len(ks) - 1)), v \in AttrValues[ks[Len(ks)]]}

AttrBags ==
    UNION {BagsOf(ks) : ks \in {q \in SeqsUpTo(AttrKeys, MaxAttrs) : \A i, j \in 1..Len(q) : i # j => q[i] # q[j]}}

AttrsInit ==
    /\ attrs \in AttrBags
    /\ propsArg = "ref"
    /\ attrsPt = EmptyMap
    /\ out = NoCall
    /\ written = {}
    /\ theme = Lit(<<>>, EmptyMap)
    /\ normalizedTheme = EmptyMap
    /\ propsPt = Undef
    /\ log = <<>>
    /\ chain = <<>>
    /\ resolved = NewComputed
    /\ hist = <<>>
    /\ catalogues = <<>>
    /\ themeCache = <<>>
    /\ calls = <<>>
    /\ args = <<EmptyMap, EmptyMap>>

\* attrsPt.value is read for the first time: its getter calls attrsToPt(),
\* which reads the bag from useAttrs(); the call is recorded with the bag as
\* it was given and the map under construction after each key
CallAttrsToPt ==
    /\ out.op = "none"
    /\ LET r == attrsToPt(attrs) IN
        /\ attrsPt' = r.ret
        /\ attrs' = r.attrs
        /\ out' = [op |-> "attrsToPt", key |-> "", ret |-> r.ret, from |-> "new",
                   given |-> attrs, trace |-> r.trace]
        /\ written' = written \cup (IF r.attrs # attrs THEN {"attrs"} ELSE {})
    /\ UNCHANGED <<theme, normalizedTheme, propsPt, log, chain, resolved, hist,
                   catalogues, themeCache, calls, args, propsArg>>

AttrsNext == CallAttrsToPt

AttrsSpec == AttrsInit /\ [][AttrsNext]_vars

\* ------------------------------------------------------- the propsPt argument
\* usePassThrough(theme) and usePassThrough(theme, props.pt) with props.pt
\* undefined pass undefined itself; usePassThrough(theme, ref(...)) passes a
\* ref, whatever it holds
SetupProps == {Undef, Obj(EmptyMap), Obj("root" :> Str(<<"flex", "text-lg">>))}

SetupInit ==
    /\ theme \in Themes
    /\ normalizedTheme = processTheme(theme).result
    /\ attrsPt \in Bags
    /\ propsArg \in {"value", "ref"}
    /\ propsPt \in SetupProps
    /\ out = NoCall
    /\ log = requiredWarning(propsArg, propsPt) \o processTheme(theme).warns
    /\ chain = <<>>
    /\ resolved = NewComputed
    /\ hist = <<>>
    /\ written = {}
    /\ catalogues = <<theme>>
    /\ themeCache = processThemeCached(1, <<>>, theme, 1).cache
    /\ calls = <<processThemeCached(1, <<>>, theme, 1).call>>
    /\ args = <<EmptyMap, EmptyMap>>
    /\ attrs = <<>>

SetupNext == CallPtMark \/ CallPtFor

SetupSpec == SetupInit /\ [][SetupNext]_vars

\* ============================================================== properties
Props == resolvedPropsPt(propsPt)

Present(name) == name \in DOMAIN Props

ExtValue(name) == Get(Props, name)

\* the flags on the value under name (none when it is not an object)
KeyFlags(name) == IF isObject(ExtValue(name)) THEN ExtValue(name).m ELSE EmptyMap

CatEntry(name) == IF name \in DOMAIN normalizedTheme THEN normalizedTheme[name] ELSE EmptyMap

BagEntry(name) == normalizeValue(Get(attrsPt, name))

HasTrue(map, flag) == Get(map, flag) = True

NoFlags(map) == Without(map, FlagKeys)

Toks(map) == ClassToks(Get(map, "class"))

InSeq(x, seq) == \E i \in 1..Len(seq) : seq[i] = x

\* the class-aware merge of two attribute maps as the specification words it:
\* attributes of both, b winning (callbacks chained, style objects merged key
\* by key), class conflict-resolved
ClassAwareMerge(a, b) ==
    LET rest == [k \in ((DOMAIN a) \cup (DOMAIN b)) \ {"class"} |->
                    IF k \notin DOMAIN b THEN a[k]
                    ELSE IF k \in DOMAIN a /\ isOn(k) THEN Fn(a[k].s \o b[k].s)
                    ELSE IF k = "style" THEN Obj(Spread(Get(a, k).m, b[k].m))
                    ELSE b[k]]
    IN  IF "class" \in (DOMAIN a) \cup (DOMAIN b)
        THEN Spread(rest, "class" :> Str(twMerge(Toks(a) \o Toks(b))))
        ELSE rest

\* the same merge with the one difference the code makes: a class that is
\* identical on both sides is taken once before it is conflict-resolved
ClassAwareMergeOnce(a, b) ==
    IF "class" \in DOMAIN a /\ "class" \in DOMAIN b /\ a["class"] = b["class"]
    THEN ClassAwareMerge(a, Without(b, {"class"}))
    ELSE ClassAwareMerge(a, b)

\* the merge/replace decision of 4.5a: a per-key flag that is set decides,
\* otherwise the top-level $merge does; merge wins when both are set
DecisionIsMerge(name) ==
    IF HasTrue(KeyFlags(name), "$merge") \/ HasTrue(KeyFlags(name), "$replace")
    THEN HasTrue(KeyFlags(name), "$merge")
    ELSE HasTrue(Props, "$merge")

C2_Original ==
    (out.op = "ptMark" /\ ~Present(out.key))
    => out.ret = ClassAwareMerge(CatEntry(out.key), BagEntry(out.key))

\* C2 amended: with a truthy bag override for name the result is the
\* class-aware merge (an identical class taken once); with none the catalogue
\* entry is returned as it is, its class not conflict-resolved. This holds
\* whatever flags props.pt carries.
C2_AbsentMergesCatalogueAndBag ==
    (out.op = "ptMark" /\ ~Present(out.key))
    => out.ret = IF Truthy(Get(attrsPt, out.key))
                 THEN ClassAwareMergeOnce(CatEntry(out.key), BagEntry(out.key))
                 ELSE CatEntry(out.key)

C2_Witness ==
    /\ out.op = "ptMark" /\ out.key = "root" /\ ~Present("root")
    /\ HasTrue(Props, "$replace") /\ Present("badge")
    /\ "id" \in DOMAIN CatEntry("root") /\ "id" \in DOMAIN BagEntry("root")
    /\ out.ret = ("class" :> Str(<<"p-2", "flex">>)) @@ ("id" :> Str(<<"bag-id">>))

\* ---- C3 ---------------------------------------------------------------
\* the catalogue+bag result of C2
CatalogueWithBag(name) ==
    IF Truthy(Get(attrsPt, name))
    THEN ClassAwareMergeOnce(CatEntry(name), BagEntry(name))
    ELSE CatEntry(name)

\* C3 as stated: when the decision is merge ptMark returns
\* merge(merge(catalogue, bag), external without flag keys).
C3_Original ==
    (out.op = "ptMark" /\ Present(out.key) /\ DecisionIsMerge(out.key))
    => out.ret = ClassAwareMerge(ClassAwareMerge(CatEntry(out.key), BagEntry(out.key)),
                                 NoFlags(normalizeValue(ExtValue(out.key))))

\* C3 amended: when the decision is merge ptMark returns the catalogue+bag
\* result of C2 with the external value's attributes (flag keys excluded)
\* merged on top, precedence catalogue < bag < external; an external value
\* with no attribute besides flags returns the catalogue+bag result as it is.
C3_MergeLayersExternalOnTop ==
    (out.op = "ptMark" /\ Present(out.key) /\ DecisionIsMerge(out.key))
    => LET ext == NoFlags(normalizeValue(ExtValue(out.key))) IN
       out.ret = IF isEmpty(ext) THEN CatalogueWithBag(out.key)
                 ELSE ClassAwareMergeOnce(CatalogueWithBag(out.key), ext)

C3_Witness ==
    /\ out.op = "ptMark" /\ out.key = "root" /\ Present("root")
    /\ HasTrue(KeyFlags("root"), "$merge")
    /\ Toks(CatEntry("root")) = <<"p-2", "grid">>
    /\ Toks(BagEntry("root")) = <<"text-sm">>
    /\ out.ret = ("class" :> Str(<<"text-sm", "p-4", "flex">>)) @@ ("id" :> Str(<<"ext-id">>))

\* ---- C4 ---------------------------------------------------------------
\* C4: in ptMark a per-key flag that is set decides merge or replace whatever
\* the top-level flags are; a top-level $merge: true decides for the keys
\* without a per-key flag, plain strings included.
C4_KeyFlagBeatsTopLevel ==
    (out.op = "ptMark" /\ Present(out.key))
    => LET ext == normalizeValue(ExtValue(out.key)) IN
       IF DecisionIsMerge(out.key)
       THEN out.ret = mergeAttrs(ptAttrs(out.key, CatEntry(out.key), attrsPt), NoFlags(ext))
       ELSE NoFlags(out.ret) = NoFlags(ext)

\* key-level $replace under top-level $merge replaced
C4_Witness ==
    /\ out.op = "ptMark" /\ out.key = "root" /\ Present("root")
    /\ HasTrue(Props, "$merge") /\ HasTrue(KeyFlags("root"), "$replace")
    /\ ~HasTrue(KeyFlags("root"), "$merge")
    /\ Toks(CatEntry("root")) = <<"p-2", "grid">>
    /\ Toks(out.ret) = <<"p-4", "flex">>

\* ---- C5 ---------------------------------------------------------------
\* the value under name as a nested override (empty unless a class-free map)
NestedExt(name) == extractNestedPt(ExtValue(name))

\* the value under name is a map a child component can be given
Forwardable(name) == isObject(ExtValue(name)) /\ "class" \notin DOMAIN ExtValue(name).m

\* mergeOverrides(mergeOverrides(nested(catalogue), nested(bag)), nested(external) without flags)
MergedForward(name) ==
    mergePt(mergePt(extractNestedPt(Obj(CatEntry(name))), extractNestedPt(Get(attrsPt, name))),
            NoFlags(NestedExt(name)))

\* C5: ptFor(name), with name present in props.pt and $merge: true on its
\* nested value, returns the three-layer mergeOverrides result and the
\* returned map always carries $merge: true.
C5_Original ==
    (out.op = "ptFor" /\ Present(out.key) /\ HasTrue(NestedExt(out.key), "$merge"))
    => /\ Without(out.ret, {"$merge"}) = Without(MergedForward(out.key), {"$merge"})
       /\ HasTrue(out.ret, "$merge")

\* ---- C6 ---------------------------------------------------------------
\* what the page passed to the outermost component of the chain
OutermostProps == IF chain = <<>> THEN Props ELSE resolvedPropsPt(chain[1].propsPt)

OutermostFlags == extractNestedPt(Get(OutermostProps, "badge"))

\* C6: in a chain of any depth, with $merge: true (and no $replace) on the
\* outermost override of the forwarded name, every forwarded map carries
\* $merge: true and the innermost root class holds the class of every level's
\* catalogue and of the outermost override.
C6_Original ==
    (/\ chain # <<>>
     /\ HasTrue(OutermostFlags, "$merge")
     /\ ~HasTrue(OutermostFlags, "$replace"))
    => /\ \A i \in 1..Len(chain) : HasTrue(chain[i].fwd, "$merge")
       /\ (out.op = "ptMark" /\ out.key = "root")
          => /\ InSeq("ext", Toks(out.ret))
             /\ \A j \in 1..Level : InSeq(LevelTok[j], Toks(out.ret))

\* ---- C7 ---------------------------------------------------------------
\* the component that rendered this one, and what it was passed for 'badge'
Parent == chain[Len(chain)]

ParentNestedExt == extractNestedPt(Get(resolvedPropsPt(Parent.propsPt), "badge"))

\* C7: whenever ptFor's decision is replace (no true $merge on the nested
\* value) it returns only the nested external value: no $merge: true, nothing
\* of the catalogue or the bag, and a child resolving against the forwarded
\* map shows exactly the replacing value.
C7_ReplaceForwardsExternalOnly ==
    /\ (out.op = "ptFor" /\ Present(out.key) /\ ~HasTrue(NestedExt(out.key), "$merge"))
       => /\ NoFlags(out.ret) = NoFlags(NestedExt(out.key))
          /\ \A k \in DOMAIN out.ret : k \in DOMAIN NestedExt(out.key) /\ out.ret[k] = NestedExt(out.key)[k]
          /\ ~HasTrue(out.ret, "$merge")
    /\ (/\ chain # <<>>
        /\ out.op = "ptMark"
        /\ "badge" \in DOMAIN resolvedPropsPt(Parent.propsPt)
        /\ ~HasTrue(ParentNestedExt, "$merge")
        /\ out.key \in DOMAIN ParentNestedExt)
       => NoFlags(out.ret) = NoFlags(normalizeValue(ParentNestedExt[out.key]))

\* the page replaces explicitly, the parent's catalogue entry carries $merge
\* and the parent has a bag override: the child shows the page's class only
C7_Witness ==
    /\ Len(chain) = 1
    /\ HasTrue(ParentNestedExt, "$replace")
    /\ HasTrue(Parent.theme.m["badge"].m, "$merge")
    /\ Parent.attrsPt # EmptyMap
    /\ ~HasTrue(Props, "$merge")
    /\ out.op = "ptMark" /\ out.key = "root"
    /\ out.ret = ("class" :> Str(<<"ext">>))

\* ---- C8 ---------------------------------------------------------------
\* C8: for a name present in props.pt ptFor reaches the decision of ptMark
\* (4.5a): it forwards the merged map when the decision is merge and the
\* nested external value alone when it is replace.
C8_Original ==
    (out.op = "ptFor" /\ Present(out.key) /\ Forwardable(out.key))
    => IF DecisionIsMerge(out.key)
       THEN NoFlags(out.ret) = NoFlags(MergedForward(out.key))
       ELSE NoFlags(out.ret) = NoFlags(NestedExt(out.key))

\* ---- C9 ---------------------------------------------------------------
\* C9: the map ptMark returns for a name present in props.pt never contains
\* the key $merge or the key $replace.
C9_Original ==
    (out.op = "ptMark" /\ Present(out.key))
    => (DOMAIN out.ret) \cap FlagKeys = {}

\* ---- C10 --------------------------------------------------------------
\* both flags true on the value, or both true at the top level with no
\* per-key flag set
BothSetAtOneLevel(name) ==
    \/ HasTrue(KeyFlags(name), "$merge") /\ HasTrue(KeyFlags(name), "$replace")
    \/ /\ ~HasTrue(KeyFlags(name), "$merge") /\ ~HasTrue(KeyFlags(name), "$replace")
       /\ HasTrue(Props, "$merge") /\ HasTrue(Props, "$replace")

\* C10: ptMark and ptFor emit exactly one conflicting-flags diagnostic when
\* $merge and $replace are both true at one precedence level, and none
\* otherwise.
C10_Original ==
    (/\ out.op \in {"ptMark", "ptFor"}
     /\ Present(out.key)
     /\ out.op = "ptFor" => Forwardable(out.key))
    => IF BothSetAtOneLevel(out.key)
       THEN log = <<Warning("BothSet", out.key)>>
       ELSE log = <<>>

\* ---- C11 --------------------------------------------------------------
\* the nested defaults of the catalogue and the nested override of the bag
CatNested(name) == extractNestedPt(Obj(CatEntry(name)))

BagNested(name) == extractNestedPt(Get(attrsPt, name))

\* a catalogue class token the bag does not override: it survives the
\* catalogue's own conflict resolution and conflicts with no bag token
KeptToken(tok, name) ==
    /\ InSeq(tok, twMerge(Toks(CatEntry(name))))
    /\ \/ Family(tok) = ""
       \/ \A i \in 1..Len(Toks(BagEntry(name))) : Family(Toks(BagEntry(name))[i]) # Family(tok)

\* the ptMark half of C11
BagMergesInPtMark ==
    (out.op = "ptMark" /\ ~Present(out.key))
    => /\ \A k \in (DOMAIN CatEntry(out.key)) \ ((DOMAIN BagEntry(out.key)) \cup {"class"}) :
            k \in DOMAIN out.ret /\ out.ret[k] = CatEntry(out.key)[k]
       /\ \A i \in 1..Len(Toks(CatEntry(out.key))) :
            KeptToken(Toks(CatEntry(out.key))[i], out.key) => InSeq(Toks(CatEntry(out.key))[i], Toks(out.ret))

\* the ptFor half of C11
BagMergesInPtFor ==
    (out.op = "ptFor" /\ ~Present(out.key))
    => \A k \in (DOMAIN CatNested(out.key)) \ ((DOMAIN BagNested(out.key)) \cup FlagKeys) :
            k \in DOMAIN out.ret /\ out.ret[k] = CatNested(out.key)[k]

\* C11: a bag override always merges with the catalogue default and never
\* replaces it: in ptMark and in ptFor, with the name absent from props.pt,
\* every catalogue attribute, class token or nested entry the bag does not
\* itself override is still in the result.
C11_Original == BagMergesInPtMark /\ BagMergesInPtFor

\* ---- C12 --------------------------------------------------------------
\* C12: props.pt is read fresh on every resolution: after any sequence of
\* assignments to the propsPt ref, ptMark(name) and ptFor(name) return what
\* the value the ref holds now gives with the same catalogue and bag,
\* whatever the ref held before.
C12_ReadFreshOnEveryResolution ==
    /\ out.op = "ptMark" => out.ret = ptMark(out.key, normalizedTheme, attrsPt, propsPt).ret
    /\ out.op = "ptFor" => out.ret = ptFor(out.key, normalizedTheme, attrsPt, propsPt).ret

\* a replace was rendered, then the ref was set back to undefined: the next
\* ptMark shows the catalogue+bag merge again
C12_Witness ==
    /\ Len(hist) = 2
    /\ hist[1].v = Obj("root" :> Str(<<"flex", "text-lg">>)) /\ hist[1].read
    /\ hist[2].v = Undef /\ hist[2].read
    /\ propsPt = Undef
    /\ out.op = "ptMark" /\ out.key = "root"
    /\ out.ret = "class" :> Str(<<"p-2", "grid", "text-sm">>)

\* ---- C13 --------------------------------------------------------------
\* the last call took a merge path: ptMark of a name absent from props.pt
\* (catalogue + bag), or a call whose decision is merge
OnMergePath ==
    \/ out.op = "ptMark" /\ ~Present(out.key)
    \/ out.op = "ptMark" /\ Present(out.key) /\ DecisionIsMerge(out.key)
    \/ out.op = "ptFor" /\ Present(out.key) /\ HasTrue(NestedExt(out.key), "$merge")

\* the last call had something to lay over the catalogue default
SomethingToMerge ==
    \/ out.op = "ptMark" /\ Truthy(Get(attrsPt, out.key))
    \/ out.op = "ptMark" /\ ~isEmpty(NoFlags(normalizeValue(ExtValue(out.key))))
    \/ out.op = "ptFor" /\ Present(out.key)
       /\ (~isEmpty(BagNested(out.key)) \/ ~isEmpty(NoFlags(NestedExt(out.key))))

Normalized(cat) ==
    LET keys == normalizedKeys(cat) IN
    [k \in {keys[i] : i \in 1..Len(keys)} |-> normalizeValue(cat.m[k])]

HasExtend(n, k) == k \in DOMAIN n /\ "extend" \in DOMAIN n[k]

ExtendTarget(n, k) == KeyOf(n[k]["extend"])

RECURSIVE OnCycle(_, _, _)
\* following the extend directives from k comes back to a name already seen
OnCycle(n, k, seen) ==
    \/ k \in seen
    \/ HasExtend(n, k) /\ OnCycle(n, ExtendTarget(n, k), seen \cup {k})

\* the entry k extends a name of the catalogue and no cycle is involved
ExtendResolvable(n, k) ==
    /\ HasExtend(n, k)
    /\ ExtendTarget(n, k) \in DOMAIN n
    /\ ~OnCycle(n, k, {})

\* the entry's own attributes: neither class nor extend
OwnAttrs(n, k) == Without(n[k], {"extend", "class"})

\* C14: for an entry whose extend target exists and is resolvable,
\* processTheme yields the non-class attributes of the resolved target
\* overlaid by the entry's own (the entry wins), with class =
\* conflict-resolve(target's resolved class, entry's class), and without the
\* extend key.
C14_ExtendMergesTarget ==
    \A i \in 1..Len(calls) :
        LET n == Normalized(catalogues[calls[i].id])
            ret == calls[i].ret
        IN  \A k \in DOMAIN n :
                ExtendResolvable(n, k)
                => LET target == ret[ExtendTarget(n, k)] IN
                   /\ k \in DOMAIN ret
                   /\ "extend" \notin DOMAIN ret[k]
                   /\ Without(ret[k], {"class"}) = Spread(Without(target, {"class"}), OwnAttrs(n, k))
                   /\ Get(ret[k], "class") = Str(twMerge(Toks(target) \o Toks(n[k])))

\* c extends b, b extends a: c holds a's title, its own id and the class of
\* the three with the padding conflict resolved
C14_Witness ==
    /\ calls # <<>>
    /\ LET n == Normalized(catalogues[calls[1].id]) IN
       /\ ExtendResolvable(n, "c") /\ ExtendTarget(n, "c") = "b"
       /\ ExtendResolvable(n, "b") /\ ExtendTarget(n, "b") = "a"
       /\ "title" \in DOMAIN n["a"]
    /\ calls[1].ret["c"] = ("class" :> Str(<<"a-class", "b-class", "p-4">>))
                           @@ ("id" :> Str(<<"c-id">>)) @@ ("title" :> Str(<<"a">>))

\* ---- C15 --------------------------------------------------------------
\* a and b extend each other and each has its own class
MutualExtend(n) ==
    /\ HasExtend(n, "a") /\ ExtendTarget(n, "a") = "b"
    /\ HasExtend(n, "b") /\ ExtendTarget(n, "b") = "a"
    /\ Toks(n["a"]) # <<>> /\ Toks(n["b"]) # <<>>

\* C15: for a catalogue whose entries a and b extend each other, the resolved
\* class of a is a's own class only, the resolved class of b is b's own class
\* only, and a cycle diagnostic is emitted.
C15_Original ==
    \A i \in 1..Len(calls) :
        LET n == Normalized(catalogues[calls[i].id]) IN
        (~calls[i].hit /\ MutualExtend(n))
        => /\ Toks(calls[i].ret["a"]) = Toks(n["a"])
           /\ Toks(calls[i].ret["b"]) = Toks(n["b"])
           /\ \E j \in 1..Len(calls[i].warns) : calls[i].warns[j].kind = "Circular"

\* ---- C16 --------------------------------------------------------------
\* C16: processTheme returns for every catalogue (self-extends, extend cycles
\* of any length and extends to unknown names included) after a bounded
\* number of resolveExtend calls: at most one per name from the loop and one
\* per extend directive; when it returns no name is still being resolved and
\* every name whose entry normalized to a non-empty map has a resolved entry.
C16_TerminatesWithAllResolved ==
    \A i \in 1..Len(calls) :
        LET n == Normalized(catalogues[calls[i].id]) IN
        /\ calls[i].resolving = {}
        /\ DOMAIN calls[i].ret = DOMAIN n
        /\ ~calls[i].hit
           => calls[i].steps <= Cardinality(DOMAIN n) + Cardinality({k \in DOMAIN n : HasExtend(n, k)})

\* a cycle of length three: the run made six resolveExtend calls, emitted
\* one cycle diagnostic and left no name being resolved
C16_Witness ==
    /\ calls # <<>>
    /\ ~calls[1].hit
    /\ LET n == Normalized(catalogues[calls[1].id]) IN
       /\ HasExtend(n, "a") /\ ExtendTarget(n, "a") = "b"
       /\ HasExtend(n, "b") /\ ExtendTarget(n, "b") = "c"
       /\ HasExtend(n, "c") /\ ExtendTarget(n, "c") = "a"
    /\ DOMAIN calls[1].ret = {"a", "b", "c"}
    /\ calls[1].resolving = {}
    /\ calls[1].steps = 6
    /\ Len(calls[1].warns) = 1

\* ---- C17 --------------------------------------------------------------
\* the entry k extends a name that is no resolvable name of the catalogue:
\* absent from it, or dropped because it normalized to empty
ExtendUnknown(n, k) == HasExtend(n, k) /\ ExtendTarget(n, k) \notin DOMAIN n

\* C17: for an entry whose extend target is not a resolvable name of the
\* catalogue, processTheme emits a diagnostic naming the entry and the target
\* and resolves the entry to its own non-class, non-extend attributes plus
\* its own class value, the empty string when it has none.
C17_UnknownTargetKeepsOwn ==
    \A i \in 1..Len(calls) :
        LET n == Normalized(catalogues[calls[i].id]) IN
        \A k \in DOMAIN n :
            ExtendUnknown(n, k)
            => /\ calls[i].ret[k] =
                    Spread(OwnAttrs(n, k), "class" :> Str(Toks(n[k])))
               /\ ~calls[i].hit
                  => \E j \in 1..Len(calls[i].warns) :
                        calls[i].warns[j] = ExtendWarning("NotFound", k, ExtendTarget(n, k))

\* b extends a, which normalized to empty and was dropped; c extends an
\* absent name and has no class of its own
C17_Witness ==
    /\ calls # <<>>
    /\ ~calls[1].hit
    /\ Get(catalogues[calls[1].id].m, "a") = True
    /\ LET n == Normalized(catalogues[calls[1].id]) IN
       /\ ExtendUnknown(n, "b") /\ ExtendTarget(n, "b") = "a"
       /\ ExtendUnknown(n, "c") /\ ExtendTarget(n, "c") = "zz" /\ "class" \notin DOMAIN n["c"]
    /\ calls[1].ret["b"] = ("class" :> Str(<<"b-class", "p-2">>)) @@ ("id" :> Str(<<"b-id">>))
    /\ calls[1].ret["c"] = ("class" :> Str(<<>>)) @@ ("id" :> Str(<<"c-id">>))
    /\ Len(calls[1].warns) = 2

\* ---- C18 --------------------------------------------------------------
\* the calls made on the catalogue object id, oldest first
CallsOn(id) == SelectSeq(calls, LAMBDA c : c.id = id)

\* C18: processTheme is memoized by catalogue object identity: the cache
\* entry of an object is written at most once, by the first call on it;
\* every later call on the object returns the very object the first call
\* returned and emits no diagnostic; two distinct catalogue objects, also
\* structurally identical ones, get results and cache entries of their own.
C18_MemoizedByIdentity ==
    /\ \A id \in 1..Len(catalogues) :
        LET on == CallsOn(id) IN
        /\ Cardinality({i \in 1..Len(on) : on[i].wrote}) <= 1
        /\ on # <<>>
           => /\ on[1].wrote /\ ~on[1].hit
              /\ on[1].ret = processTheme(catalogues[id]).result
              /\ on[1].warns = processTheme(catalogues[id]).warns
              /\ id \in DOMAIN themeCache
              /\ themeCache[id] = Resolved(on[1].ret, on[1].obj)
              /\ \A i \in 2..Len(on) :
                    /\ on[i].hit
                    /\ on[i].obj = on[1].obj /\ on[i].ret = on[1].ret
                    /\ on[i].warns = <<>>
        /\ on = <<>> => id \notin DOMAIN themeCache
    /\ \A i, j \in 1..Len(calls) : calls[i].id # calls[j].id => calls[i].obj # calls[j].obj

\* two structurally identical catalogues with an unknown extend target: each
\* was resolved once, with its diagnostic, and the third call hit the cache
C18_Witness ==
    /\ Len(calls) = 3
    /\ catalogues[1] = catalogues[2]
    /\ calls[1].id = 1 /\ calls[2].id = 2 /\ calls[3].id = 1
    /\ calls[1].warns # <<>> /\ calls[2].warns = calls[1].warns /\ calls[3].warns = <<>>
    /\ calls[2].obj # calls[1].obj /\ calls[2].ret = calls[1].ret
    /\ calls[3].hit /\ calls[3].obj = calls[1].obj

\* ---- C19 --------------------------------------------------------------
\* the frame rules of C19 for one key
KeepsOrTakes(a, b, ret, k) ==
    /\ (k \in DOMAIN a /\ ~Truthy(Get(b, k))) => (k \in DOMAIN ret /\ ret[k] = a[k])
    /\ (~Truthy(Get(a, k)) /\ Truthy(Get(b, k))) => (k \in DOMAIN ret /\ ret[k] = b[k])

\* C19 as stated: mergePt(a, b) has exactly the union of the keys of a and b;
\* where b[k] is absent or falsy the result keeps a[k], and where a[k] is
\* absent or falsy and b[k] truthy it takes b[k] as it is.
C19_Original ==
    out.op = "mergePt"
    => /\ DOMAIN out.ret = (DOMAIN args[1]) \cup (DOMAIN args[2])
       /\ \A k \in (DOMAIN args[1]) \cup (DOMAIN args[2]) : KeepsOrTakes(args[1], args[2], out.ret, k)

\* C19 amended: mergePt(a, b) has exactly the keys of a and the keys of b
\* whose value is truthy (a key only b has, with a falsy value, is not
\* added); the two frame rules hold as stated.
C19_KeysOfAAndTruthyKeysOfB ==
    out.op = "mergePt"
    => /\ DOMAIN out.ret = (DOMAIN args[1]) \cup {k \in DOMAIN args[2] : Truthy(args[2][k])}
       /\ \A k \in (DOMAIN args[1]) \cup (DOMAIN args[2]) : KeepsOrTakes(args[1], args[2], out.ret, k)

\* a's root is kept against b's empty string, and b's string for badge,
\* which a does not have, is taken as the string it is
C19_Witness ==
    /\ out.op = "mergePt"
    /\ args[1] = ("root" :> Str(<<"card">>))
    /\ args[2] = ("root" :> Str(<<>>)) @@ ("badge" :> Str(<<"p-2", "grid">>))
    /\ out.ret = ("root" :> Str(<<"card">>)) @@ ("badge" :> Str(<<"p-2", "grid">>))

\* ---- C20 --------------------------------------------------------------
\* a string or a plain map, and whether it carries class (a string does)
StringOrMap(v) == isString(v) \/ isObject(v)

CarriesClass(v) == isString(v) \/ (isObject(v) /\ "class" \in DOMAIN v.m)

AsAttrs(v) == IF isString(v) THEN "class" :> v ELSE v.m

RECURSIVE MergeOverrides(_, _)
\* the rule of C20 for two truthy values, read as a definition (the
\* recursion follows the key rules of C19 as amended)
MergeOverrides(a, b) ==
    IF StringOrMap(a) /\ StringOrMap(b) /\ (CarriesClass(a) \/ CarriesClass(b))
    THEN Obj(ClassAwareMerge(AsAttrs(a), AsAttrs(b)))
    ELSE IF isObject(a) /\ isObject(b)
    THEN Obj([k \in (DOMAIN a.m) \cup {j \in DOMAIN b.m : Truthy(b.m[j])} |->
                IF ~Truthy(Get(b.m, k)) THEN a.m[k]
                ELSE IF ~Truthy(Get(a.m, k)) THEN b.m[k]
                ELSE MergeOverrides(a.m[k], b.m[k])])
    ELSE b

TokenSet(v) == {ClassToks(v)[i] : i \in 1..Len(ClassToks(v))}

RECURSIVE SameUpToClassTokens(_, _)
\* equal values, a class being compared by the tokens it holds
SameUpToClassTokens(v, w) ==
    IF isObject(v) /\ isObject(w)
    THEN /\ DOMAIN v.m = DOMAIN w.m
         /\ \A k \in DOMAIN v.m :
                IF k = "class"
                THEN isString(v.m[k]) /\ isString(w.m[k]) /\ TokenSet(v.m[k]) = TokenSet(w.m[k])
                ELSE SameUpToClassTokens(v.m[k], w.m[k])
    ELSE v = w

BothTruthy(k) ==
    /\ k \in DOMAIN args[1] /\ Truthy(args[1][k])
    /\ k \in DOMAIN args[2] /\ Truthy(args[2][k])

HandlersOf(map, ev) == IF ev \in DOMAIN map /\ map[ev].t = "fn" THEN map[ev].s ELSE <<>>

\* the callbacks of xs followed by those of ys that xs does not hold already
Chained(xs, ys) == xs \o SelectSeq(ys, LAMBDA y : ~InSeq(y, xs))

\* what the external override adds for name on a merge path of ptMark
ExtAttrs(name) ==
    IF Present(name) /\ DecisionIsMerge(name)
    THEN normalizeValue(IF isObject(ExtValue(name)) THEN Obj(NoFlags(ExtValue(name).m)) ELSE ExtValue(name))
    ELSE EmptyMap

\* mergePt takes the class-aware branch for key k
ClassAwareBranch(k) ==
    /\ k \in DOMAIN args[1] /\ k \in DOMAIN args[2]
    /\ Truthy(args[1][k]) /\ Truthy(args[2][k])
    /\ StringOrMap(args[1][k]) /\ StringOrMap(args[2][k])
    /\ (CarriesClass(args[1][k]) \/ CarriesClass(args[2][k]))

\* C21: in the class-aware merge the callbacks bound to one event are chained:
\* the merged attribute holds the callbacks of every source, those of the
\* earlier source first (catalogue, then bag, then external), and none is
\* missing; the sequence is the order in which the element invokes them. A
\* function that two sources both bind is held once, at its first position.
C21_CallbacksChainedInSourceOrder ==
    /\ (out.op = "mergePt") =>
        \A k \in DOMAIN out.ret : \A ev \in {"onClick", "onFocus"} :
            ClassAwareBranch(k) =>
                HandlersOf(out.ret[k].m, ev)
                    = Chained(HandlersOf(AsAttrs(args[1][k]), ev), HandlersOf(AsAttrs(args[2][k]), ev))
    /\ (out.op = "ptMark" /\ (~Present(out.key) \/ DecisionIsMerge(out.key))) =>
        \A ev \in {"onClick", "onFocus"} :
            HandlersOf(out.ret, ev)
                = Chained(Chained(HandlersOf(CatEntry(out.key), ev), HandlersOf(BagEntry(out.key), ev)),
                          HandlersOf(ExtAttrs(out.key), ev))

\* ptMark chained the callbacks of catalogue, bag and external override
C21_Witness ==
    /\ out.op = "ptMark"
    /\ Present(out.key) /\ DecisionIsMerge(out.key)
    /\ HandlersOf(CatEntry(out.key), "onClick") = <<"f">>
    /\ HandlersOf(BagEntry(out.key), "onClick") = <<"g">>
    /\ HandlersOf(ExtAttrs(out.key), "onClick") = <<"h">>
    /\ HandlersOf(out.ret, "onClick") = <<"f", "g", "h">>

\* ---- C22 --------------------------------------------------------------
RemoveAt(q, i) == SubSeq(q, 1, i - 1) \o SubSeq(q, i + 1, Len(q))

InsertAt(q, j, x) == SubSeq(q, 1, j - 1) \o <<x>> \o SubSeq(q, j, Len(q))

Elems(q) == {q[i] : i \in 1..Len(q)}

\* the bag of the recorded attrsToPt call
Given == out.given

IsPtKey(i) == Given[i].key = <<"pt">>

\* the map attrsToPt builds from the bag without its i-th attribute
BuiltWithout(i) == attrsToPt(RemoveAt(Given, i)).ret

\* a token survives the conflict resolution of toks \o later unless a later
\* token is of its family
Survives(tok, later) ==
    Family(tok) = "" \/ \A j \in 1..Len(later) : Family(later[j]) # Family(tok)

Before(i) == IF i = 1 THEN EmptyMap ELSE out.trace[i - 1]

After(i) == out.trace[i]

\* the attributes name has in a map under construction
Entry(map, name) == IF name \in DOMAIN map /\ isObject(map[name]) THEN map[name].m ELSE EmptyMap

IsSingleKey(i) == Len(Given[i].key) = 2 /\ Given[i].key[1] = "pt" /\ Given[i].key[2] # ""

IsPtAttr(i) == Given[i].key[1] = "pt"

\* C23: a key pt:<name> with value v sets the class of name to v when name
\* has no class yet (none, or an empty one; v may be the empty string) and to
\* the conflict resolution of the existing class followed by v when it has
\* one; the other attributes of name and the other names stay as they are.
\* A key that is neither pt nor prefixed pt: changes nothing, so a bag
\* without pt keys gives the empty map.
C23_SingleKeySetsClass ==
    (out.op = "attrsToPt") =>
        /\ \A i \in 1..Len(Given) :
            /\ IsSingleKey(i) =>
                LET name == Given[i].key[2]
                    v == Given[i].value
                    existing == Get(Entry(Before(i), name), "class")
                IN  /\ Get(Entry(After(i), name), "class")
                        = IF Truthy(existing) THEN Str(twMerge(ClassToks(existing) \o ClassToks(v))) ELSE v
                    /\ Without(Entry(After(i), name), {"class"}) = Without(Entry(Before(i), name), {"class"})
                    /\ Without(After(i), {name}) = Without(Before(i), {name})
            /\ ~IsPtAttr(i) => After(i) = Before(i)
        /\ (\A i \in 1..Len(Given) : ~IsPtAttr(i)) => out.ret = EmptyMap

\* pt:root comes after pt:root:class and another attribute of root: the p-4
\* of the existing class gives way to the p-2 of the value, the rest is kept
C23_Witness ==
    /\ out.op = "attrsToPt"
    /\ Len(Given) = 3
    /\ Given[3].key = <<"pt", "root">>
    /\ Given[3].value = Str(<<"p-2", "flex">>)
    /\ Get(Entry(Before(3), "root"), "class") = Str(<<"p-4", "card">>)
    /\ DOMAIN Entry(Before(3), "root") # {"class"}
    /\ Get(Entry(After(3), "root"), "class") = Str(<<"card", "p-2", "flex">>)
    /\ DOMAIN Entry(After(3), "root") = DOMAIN Entry(Before(3), "root")

\* ---- C24 --------------------------------------------------------------
RECURSIVE PathGet(_, _)
\* v[s1]...[sn], undefined when the path leaves the maps
PathGet(v, path) ==
    IF path = <<>> THEN v
    ELSE IF isObject(v) /\ Head(path) \in DOMAIN v.m THEN PathGet(v.m[Head(path)], Tail(path))
    ELSE Undef

\* the segments of a pt:... key
PathOf(i) == Tail(Given[i].key)

IsNestedKey(i) ==
    /\ Len(Given[i].key) >= 3 /\ Given[i].key[1] = "pt"
    /\ \A k \in 2..Len(Given[i].key) : Given[i].key[k] # ""

IsProperPrefix(p, q) == Len(p) < Len(q) /\ SubSeq(q, 1, Len(p)) = p

\* the attributes already set next to the last segment are still there
SiblingsKept(i) ==
    LET parent == SubSeq(PathOf(i), 1, Len(PathOf(i)) - 1)
        last == PathOf(i)[Len(PathOf(i))]
        was == PathGet(Obj(Before(i)), parent)
    IN  isObject(was) =>
            \A k \in (DOMAIN was.m) \ {last} :
                PathGet(Obj(After(i)), Append(parent, k)) = was.m[k]

\* a later key of the bag writes on the path of key i: it names a prefix of
\* the path (pt:<s1> only counts for the path s1:class) or extends the path
OverwrittenLater(i) ==
    \E j \in (i + 1)..Len(Given) :
        /\ Len(Given[j].key) >= 2 /\ Given[j].key[1] = "pt"
        /\ \/ Len(PathOf(j)) >= 2 /\ IsProperPrefix(PathOf(j), PathOf(i))
           \/ IsProperPrefix(PathOf(i), PathOf(j))
           \/ Len(PathOf(j)) = 1 /\ PathOf(i) = <<PathOf(j)[1], "class">>

\* the :pt object of the bag sets the name
SetByPtObject(name) ==
    \E j \in 1..Len(Given) :
        /\ IsPtKey(j) /\ isObject(Given[j].value)
        /\ Truthy(Get(Given[j].value.m, name))

\* the claim as stated: whatever the order of the keys, the result holds the
\* raw value at the path of every nested key (bags whose :pt object sets the
\* same name are left aside)
C24_Original ==
    (out.op = "attrsToPt") =>
        \A i \in 1..Len(Given) : (IsNestedKey(i) /\ ~SetByPtObject(PathOf(i)[1])) =>
            /\ PathGet(Obj(out.ret), PathOf(i)) = Given[i].value
            /\ SiblingsKept(i)

\* C24: a key pt:<s1>:...:<sn>, n >= 2, with value v makes
\* pt[s1]...[sn] the raw value v at the moment it is processed, creating the
\* maps missing on the way and keeping what was already set next to sn
\* (a class set by pt:<s1> included). The returned map still holds v there
\* unless a later key of the bag writes on the same path or the :pt object
\* sets s1 and is merged on top.
C24_NestedKeyAssignsRawValue ==
    (out.op = "attrsToPt") =>
        \A i \in 1..Len(Given) : IsNestedKey(i) =>
            /\ PathGet(Obj(After(i)), PathOf(i)) = Given[i].value
            /\ SiblingsKept(i)
            /\ (~OverwrittenLater(i) /\ ~SetByPtObject(PathOf(i)[1])) =>
                    PathGet(Obj(out.ret), PathOf(i)) = Given[i].value

\* pt:root:style:color comes after pt:root and pt:root:id: the style map is
\* created and class and id of root are kept
C24_Witness ==
    /\ out.op = "attrsToPt"
    /\ Len(Given) = 3
    /\ Given[3].key = <<"pt", "root", "style", "color">>
    /\ DOMAIN Entry(Before(3), "root") = {"class", "id"}
    /\ DOMAIN Entry(After(3), "root") = {"class", "id", "style"}
    /\ PathGet(Obj(out.ret), <<"root", "style", "color">>) = Str(<<"red">>)
    /\ Get(Entry(out.ret, "root"), "class") = Get(Entry(Before(3), "root"), "class")

\* ---- C30 --------------------------------------------------------------
\* C30: attrsToPt assigns only into maps it created during the call: after
\* it returns, every value of the attribute bag is what it was before the
\* call, for every order of the bag keys.
C30_BagValuesUnchanged ==
    (out.op = "attrsToPt") => attrs = out.given

\* ---- C25 --------------------------------------------------------------
\* the argument was left out (or was undefined itself)
Omitted == propsArg = "value" /\ propsPt = Undef

\* C25: right after setup the 'propsPt is required' diagnostic has been
\* emitted exactly when the argument was omitted, so never for a ref, even
\* one that holds undefined; and with the argument omitted or a ref holding
\* undefined ptMark(name) is the catalogue+bag result of the name-absent path.
C25_OmittedWarnsAndMeansEmpty ==
    /\ (out.op = "none") => (InSeq(Warning("PropsPtRequired", ""), log) <=> Omitted)
    /\ (out.op = "ptMark" /\ propsPt = Undef) => out.ret = CatalogueWithBag(out.key)

\* ptMark in a component set up without the argument, for a name that the
\* catalogue and the bag both define
C25_Witness ==
    /\ out.op = "ptMark"
    /\ Omitted
    /\ out.key \in DOMAIN normalizedTheme
    /\ Truthy(Get(attrsPt, out.key))
    /\ out.ret # CatEntry(out.key)

\* ---- C26 --------------------------------------------------------------
\* the nested form of a value: the value itself when it is a plain map
\* without a class attribute, the empty map otherwise
NestedForm(v) == IF isObject(v) /\ "class" \notin DOMAIN v.m THEN v.m ELSE EmptyMap

\* the resolved catalogue entry of name, undefined for an unknown name
CatValue(name) == IF name \in DOMAIN normalizedTheme THEN Obj(normalizedTheme[name]) ELSE Undef

NoStringNoMap(v) == ~isString(v) /\ ~isObject(v)

NoTopLevelFlag == ~HasTrue(Props, "$merge") /\ ~HasTrue(Props, "$replace")

\* C29: a key that exists in props.pt makes the name present whatever its
\* value: when the value is neither a string nor a plain map and no top-level
\* flag is set, ptMark(name) and ptFor(name) both return the empty map, so
\* nothing of the catalogue default or the bag override for the name is left.
C29_PresentNonValueGivesEmpty ==
    (/\ out.op \in {"ptMark", "ptFor"}
     /\ Present(out.key)
     /\ NoStringNoMap(ExtValue(out.key))
     /\ NoTopLevelFlag)
    => out.ret = EmptyMap

\* the key is there with the value undefined while the catalogue and the bag
\* both define the name
C29_Witness ==
    /\ out.op = "ptMark"
    /\ Present(out.key) /\ ExtValue(out.key) = Undef
    /\ NoTopLevelFlag
    /\ CatEntry(out.key) # EmptyMap
    /\ Truthy(Get(attrsPt, out.key))
    /\ out.ret = EmptyMap

\* ---- C27 --------------------------------------------------------------
\* no entry of the catalogue is on an extend cycle
Acyclic(n) == \A k \in DOMAIN n : ~OnCycle(n, k, {})

RECURSIVE Ancestry(_, _)
\* k and the names it inherits from, the farthest first: <<c, b, a>> when a
\* extends b and b extends c (for a name that is on no cycle)
Ancestry(n, k) ==
    IF HasExtend(n, k) /\ ExtendTarget(n, k) \in DOMAIN n
    THEN Append(Ancestry(n, ExtendTarget(n, k)), k)
    ELSE <<k>>

\* the chain from k ends in an entry without extend
ChainComplete(n, k) == ~OnCycle(n, k, {}) /\ ~HasExtend(n, Ancestry(n, k)[1])

\* the class tokens of the names of a chain, one after the other
ChainToks(n, names) ==
    LET F[i \in 0..Len(names)] == IF i = 0 THEN <<>> ELSE F[i - 1] \o Toks(n[names[i]])
    IN  F[Len(names)]

\* the non-class attributes of the names of a chain, a later name winning
ChainAttrs(n, names) ==
    LET F[i \in 0..Len(names)] == IF i = 0 THEN EmptyMap ELSE Spread(F[i - 1], OwnAttrs(n, names[i]))
    IN  F[Len(names)]

\* C27: along an extend chain without cycle that ends in an entry without
\* extend, the resolved class of an extending entry is the conflict
\* resolution of the classes of all its ancestors, farthest first, followed
\* by its own; its other attributes are those of the whole chain, the nearest
\* winning; and in a catalogue without cycles every name is resolved once:
\* the run makes one resolveExtend call per name and one per extend directive.
C27_TransitiveInheritance ==
    \A i \in 1..Len(calls) :
        LET n == Normalized(catalogues[calls[i].id])
            ret == calls[i].ret
        IN  /\ \A k \in DOMAIN n :
                (HasExtend(n, k) /\ ChainComplete(n, k)) =>
                    /\ Get(ret[k], "class") = Str(twMerge(ChainToks(n, Ancestry(n, k))))
                    /\ Without(ret[k], {"class"}) = ChainAttrs(n, Ancestry(n, k))
            /\ (~calls[i].hit /\ Acyclic(n)) =>
                    calls[i].steps = Cardinality(DOMAIN n) + Cardinality({k \in DOMAIN n : HasExtend(n, k)})

\* a extends b, b extends c, visited in the order a, b, c: a has c's title,
\* its own id and the class of the three, c's padding overridden by b's
C27_Witness ==
    /\ calls # <<>>
    /\ ~calls[1].hit
    /\ catalogues[calls[1].id].keys = <<"a", "b", "c">>
    /\ LET n == Normalized(catalogues[calls[1].id]) IN
       /\ ChainComplete(n, "a")
       /\ Ancestry(n, "a") = <<"c", "b", "a">>
       /\ "title" \in DOMAIN n["c"]
    /\ calls[1].ret["a"] = ("class" :> Str(<<"b-class", "p-2", "a-class">>))
                           @@ ("id" :> Str(<<"a-id">>)) @@ ("title" :> Str(<<"c">>))
    /\ calls[1].steps = 5

\* ---- C28 --------------------------------------------------------------
\* the orders in which the keys of a catalogue can be visited
Orders(keys) ==
    {q \in [1..Len(keys) -> Elems(keys)] : \A i, j \in 1..Len(keys) : i # j => q[i] # q[j]}

\* the most recent processTheme call
LastCall == calls[Len(calls)]

\* C28: for a catalogue without extend cycles the outcome of processTheme
\* does not depend on the order of the catalogue's keys: visiting them in
\* any other order gives the same resolved map for every name and the same
\* set of diagnostics.
C28_OrderIndependentWithoutCycles ==
    (calls # <<>> /\ ~LastCall.hit /\ Acyclic(Normalized(catalogues[LastCall.id]))) =>
        \A q \in Orders(catalogues[LastCall.id].keys) :
            LET other == processTheme(Lit(q, catalogues[LastCall.id].m)) IN
            /\ other.result = LastCall.ret
            /\ Elems(other.warns) = Elems(LastCall.warns)

\* c extends a, a extends b, b extends an unknown name; the keys are visited
\* a, b, c and the reverse order gives the same three entries
C28_Witness ==
    /\ calls # <<>>
    /\ ~LastCall.hit
    /\ catalogues[LastCall.id].keys = <<"a", "b", "c">>
    /\ LET n == Normalized(catalogues[LastCall.id]) IN
       /\ HasExtend(n, "c") /\ ExtendTarget(n, "c") = "a"
       /\ HasExtend(n, "a") /\ ExtendTarget(n, "a") = "b"
       /\ HasExtend(n, "b") /\ ExtendTarget(n, "b") = "zz"
    /\ Len(LastCall.warns) = 1
    /\ Toks(LastCall.ret["c"]) = <<"b-class", "a-class", "p-4">>
    /\ processTheme(Lit(<<"c", "b", "a">>, catalogues[LastCall.id].m)).result = LastCall.ret

====
